---- MODULE Spec2Model ----
(***************************************************************************)
(* State-machine model of the TaskFlow task engine: tasks, the dependency  *)
(* graph, dependency actions, the event log and the scheduled-action       *)
(* queue (core/services/TaskService.py, core/services/ProjectService.py,   *)
(* core/db/models/task.py, core/db/models/project.py).                     *)
(***************************************************************************)
EXTENDS Integers, Sequences, FiniteSets, TLC

\* ------------------------------------------------------------------ bounds
\* Task ids the store allocates in a run.
MaxTasks == 3
\* Dependency ids the store allocates in a run.
MaxDeps == 3
\* Dependency-action ids the store allocates in a run.
MaxActions == 1
\* Scheduled-action ids the store allocates in a run.
MaxSched == 1
\* Length of the event log.
MaxEvents == 7
\* Horizon of the clock.
MaxTime == 1
\* Status writes made through change_task_status in a run.
MaxStatusChanges == 2
\* The same, for the runs with every kind of actor.
MaxTasksAll == 2
MaxDepsAll == 1
MaxEventsAll == 3
MaxStatusChangesAll == 2
\* The same, for the runs with status changes on three tasks.
MaxDepsEngine == 2
MaxEventsEngine == 6
\* Concurrent callers of create_dependency, and concurrent scheduler workers.
MaxCallers == 2
MaxWorkers == 2
MaxActionsQueue == 2
MaxSchedQueue == 2
MaxDelayQueue == 2
MaxTimeQueue == 2
MaxProjects == 2
MaxSchedUpdate == 6
MaxEventsUpdate == 4
MaxEventsCascade == 8
MaxActionsBatch == 2
MaxSchedBatch == 2
MaxOrderBatch == 1
MaxStatusChangesBatch == 1
MaxTasksTimes == 1
MaxStatusChangesTimes == 4
MaxTimeTimes == 3
MaxEventsTimes == 5
MaxSchedDelete == 2
MaxEdges == 2
MaxVertex == 2
MaxEdgesAlgo == 3
RecursionLimit == 2

NULL == "NULL"
\* A DateTimeField(null=True) that holds no time.
NullTime == -1
\* A ForeignKeyField(null=True) to an AutoField id that holds no id.
NullId == 0
NoPriority == -1

\* ------------------------------------------------------- reference records
Users == {"u_owner", "u_dev", "u_obs"}

\* TaskStatus.get_default_statuses: the names, and the rows with is_final.
StatusNames == {"todo", "in_progress", "review", "completed", "blocked"}

is_final(status) == status = "completed"

\* ProjectRole.get_default_roles: the capability flags the engine reads.
RoleFlags(role) ==
    CASE role = "owner" ->
           [can_create_tasks |-> TRUE, can_edit_any_task |-> TRUE,
            can_edit_own_task |-> TRUE, can_delete_any_task |-> TRUE,
            can_delete_own_task |-> TRUE, can_create_dependencies |-> TRUE,
            can_delete_dependencies |-> TRUE]
      [] role = "manager" ->
           [can_create_tasks |-> TRUE, can_edit_any_task |-> TRUE,
            can_edit_own_task |-> TRUE, can_delete_any_task |-> TRUE,
            can_delete_own_task |-> TRUE, can_create_dependencies |-> TRUE,
            can_delete_dependencies |-> TRUE]
      [] role = "developer" ->
           [can_create_tasks |-> TRUE, can_edit_any_task |-> FALSE,
            can_edit_own_task |-> TRUE, can_delete_any_task |-> FALSE,
            can_delete_own_task |-> TRUE, can_create_dependencies |-> TRUE,
            can_delete_dependencies |-> FALSE]
      [] OTHER ->
           [can_create_tasks |-> FALSE, can_edit_any_task |-> FALSE,
            can_edit_own_task |-> FALSE, can_delete_any_task |-> FALSE,
            can_delete_own_task |-> FALSE, can_create_dependencies |-> FALSE,
            can_delete_dependencies |-> FALSE]

\* User.notification_settings_dict: the preferences send_task_notification
\* reads. The developer has switched the three of them off; the others keep
\* the defaults.
NotificationSettings(user) ==
    IF user = "u_dev"
    THEN [dependency_ready |-> FALSE, task_completed |-> FALSE, task_assigned |-> FALSE]
    ELSE [dependency_ready |-> TRUE, task_completed |-> TRUE, task_assigned |-> TRUE]

\* ------------------------------------------------------------------- state
VARIABLES
    members,      \* ProjectMember rows of the project: user -> role name of the active row, or NULL
    tasks,        \* Task rows: id -> row
    deps,         \* TaskDependency rows (a set of records)
    actions,      \* DependencyAction rows (a set of records)
    scheduled,    \* ScheduledAction rows (a set of records)
    events,       \* TaskEvent rows in insertion order
    now,          \* datetime.now()
    nextTaskId, nextDepId, nextActionId, nextSchedId,   \* AutoField counters
    ret,          \* what the last engine call returned or raised
    everFinal,    \* history: ids of the tasks whose status was ever written final
    statusChanges, \* history: number of status writes made by change_task_status
    calls,        \* the create_dependency calls in progress: caller -> its local state
    workers,      \* the process_scheduled_actions ticks in progress: worker -> its local state
    dispatches,   \* history: ScheduledAction id -> how many times a worker dispatched it
    executedWrites, \* history: ScheduledAction id -> how many times executed_at was written
    storage,      \* a GraphStorage of core/graph.py: its schema, _buffer and _num_edges
    org,          \* the rows of teams, team_members, team_invitations, projects,
                  \* project_members and project_invitations
    account       \* a User row's Telegram verification fields, as stored, and as
                  \* history the failed verify_telegram_code calls since the code
                  \* was generated

vars == <<members, tasks, deps, actions, scheduled, events, now,
          nextTaskId, nextDepId, nextActionId, nextSchedId, ret, everFinal,
          statusChanges, calls, workers, dispatches, executedWrites, storage,
          org, account>>

store == <<tasks, deps, actions, scheduled, events>>

TaskIds == DOMAIN tasks

Callers == 1..MaxCallers
Workers == 1..MaxWorkers

IdleCall == [pc |-> "idle"]
IdleWorker == [pc |-> "idle"]

\* A call that runs from its first line to its return with no other call in
\* between leaves the calls in progress as they are.
Sequential == UNCHANGED <<calls, workers, dispatches, executedWrites, storage, org, account>>

NoRet == [op |-> "none", args |-> <<>>, res |-> "ok"]

\* The engine keeps no GraphStorage.
NoStorage == [schema |-> <<>>, buffer |-> <<>>, num_edges |-> 0]

\* The membership and invitation tables before any team is created.
NoOrg ==
    [teams |-> 0, team_members |-> {}, team_members_count |-> 0, team_invitations |-> <<>>,
     projects |-> 0, project_members |-> {}, project_members_count |-> 0,
     project_invitations |-> <<>>]

\* A User row without a Telegram code: tg_code, tg_code_expires are null,
\* tg_code_attempts is 0 and tg_verified is false.
NoAccount ==
    [tg_code |-> NullId, tg_code_expires |-> NullTime, tg_code_attempts |-> 0,
     tg_verified |-> FALSE, failures |-> 0]

\* ------------------------------------------------------------ ProjectService
\* The role of the user's active membership, None when there is none.
get_user_role_in_project(user) ==
    IF user \in DOMAIN members THEN members[user] ELSE NULL

is_member(user) == user \in DOMAIN members /\ members[user] # NULL

can_create_tasks(user) ==
    LET role == get_user_role_in_project(user) IN
    IF role = NULL THEN FALSE
    ELSE RoleFlags(role).can_create_tasks

can_edit_task(user, task) ==
    LET role == get_user_role_in_project(user) IN
    IF role = NULL THEN FALSE
    ELSE IF RoleFlags(role).can_edit_any_task THEN TRUE
    ELSE IF RoleFlags(role).can_edit_own_task
         THEN task.creator = user \/ task.assignee = user
    ELSE FALSE

can_delete_task(user, task) ==
    LET role == get_user_role_in_project(user) IN
    IF role = NULL THEN FALSE
    ELSE IF RoleFlags(role).can_delete_any_task THEN TRUE
    ELSE IF RoleFlags(role).can_delete_own_task THEN task.creator = user
    ELSE FALSE

\* Returns "true" or "false", or "raise": task.assignee.id is read on a task
\* whose assignee is None once task.creator.id == user.id is false.
can_create_dependencies(user, task) ==
    LET role == get_user_role_in_project(user) IN
    IF role = NULL THEN "false"
    ELSE IF RoleFlags(role).can_create_dependencies /\ RoleFlags(role).can_edit_any_task
         THEN "true"
    ELSE IF RoleFlags(role).can_create_dependencies
         THEN IF task.creator = user THEN "true"
              ELSE IF task.assignee = NULL THEN "raise"
              ELSE IF task.assignee = user THEN "true" ELSE "false"
    ELSE "false"

\* Task.save writing started_at at every save in 'in_progress'.
TaskSave_restarts(task) ==
    LET t1 == [task EXCEPT !.updated_at = now] IN
    IF t1.status = "in_progress"
    THEN [t1 EXCEPT !.started_at = now]
    ELSE IF t1.status = "completed" /\ t1.completed_at = NullTime
    THEN [t1 EXCEPT !.completed_at = now]
    ELSE t1

\* Task.save without the completed_at branch.
TaskSave_started_only(task) ==
    LET t1 == [task EXCEPT !.updated_at = now] IN
    IF t1.status = "in_progress" /\ t1.started_at = NullTime
    THEN [t1 EXCEPT !.started_at = now]
    ELSE t1

\* ------------------------------------------------------------------ models
\* Task.save(): updated_at, and started_at / completed_at on first entry.
TaskSave(task) ==
    LET t1 == [task EXCEPT !.updated_at = now] IN
    IF t1.status = "in_progress" /\ t1.started_at = NullTime
    THEN [t1 EXCEPT !.started_at = now]
    ELSE IF t1.status = "completed" /\ t1.completed_at = NullTime
    THEN [t1 EXCEPT !.completed_at = now]
    ELSE t1

\* TaskEvent.log: old_value / new_value are stored only when truthy.
EventRow(task_id, user, event_type, old_value, new_value) ==
    [task |-> task_id, user |-> user, event_type |-> event_type,
     old_value |-> old_value, new_value |-> new_value]

InitEngine ==
    /\ members = [u \in Users |->
                    CASE u = "u_owner" -> "owner"
                      [] u = "u_dev" -> "developer"
                      [] OTHER -> "observer"]
    /\ tasks = <<>>
    /\ deps = {}
    /\ actions = {}
    /\ scheduled = {}
    /\ events = <<>>
    /\ now = 0
    /\ nextTaskId = 1
    /\ nextDepId = 1
    /\ nextActionId = 1
    /\ nextSchedId = 1
    /\ ret = NoRet
    /\ everFinal = {}
    /\ statusChanges = 0
    /\ calls = [p \in Callers |-> IdleCall]
    /\ workers = [w \in Workers |-> IdleWorker]
    /\ dispatches = [i \in {} |-> 0]
    /\ executedWrites = [i \in {} |-> 0]
    /\ org = NoOrg
    /\ account = NoAccount

Init == InitEngine /\ storage = NoStorage

\* can_manage_members(user, project): the flag is set for the roles owner and
\* manager.
can_manage_members(user) ==
    LET role == get_user_role_in_project(user) IN
    IF role = NULL THEN FALSE ELSE role \in {"owner", "manager"}

\* remove_member(project, user, removed_by): the member row is deactivated;
\* nothing else is written.
remove_member(user, removed_by) ==
    /\ IF ~can_manage_members(removed_by)
       THEN /\ ret' = [op |-> "remove_member", args |-> <<user, removed_by>>, res |-> "PermissionError"]
            /\ UNCHANGED members
       ELSE IF ~is_member(user)
       THEN /\ ret' = [op |-> "remove_member", args |-> <<user, removed_by>>, res |-> "DoesNotExist"]
            /\ UNCHANGED members
       ELSE IF members[user] = "owner"
       THEN /\ ret' = [op |-> "remove_member", args |-> <<user, removed_by>>, res |-> "ValueError"]
            /\ UNCHANGED members
       ELSE /\ members' = [members EXCEPT ![user] = NULL]
            /\ ret' = [op |-> "remove_member", args |-> <<user, removed_by>>, res |-> "ok"]
    /\ UNCHANGED <<tasks, deps, actions, scheduled, events, now, nextTaskId, nextDepId,
                   nextActionId, nextSchedId, everFinal, statusChanges>>

\* ------------------------------------------------------------- TaskService
\* timedelta(hours=...) on a clock that counts minutes.
MinutesPerHour == 60
CycleCountLimit == 100
Infinity == -1
NoDistance == -2
NoVertex == -1

\* schedule_deadline_notification without the test for a reminder whose time
\* has passed.
schedule_deadline_notification_late(q, task_id, deadline, hours_before) ==
    IF deadline = NullTime THEN q
    ELSE [rows |-> q.rows \cup {[id |-> q.nextId, task |-> task_id,
                                 action_type |-> "deadline_approaching",
                                 scheduled_for |-> deadline - hours_before * MinutesPerHour,
                                 executed_at |-> NullTime,
                                 dependency_action |-> NullId,
                                 status |-> "pending"]},
          nextId |-> q.nextId + 1]

\* ScheduledAction.schedule_deadline_notification(task, hours_before), on the
\* scheduled rows q = [rows, nextId]: nothing without a deadline or when the
\* reminder's time has passed.
schedule_deadline_notification(q, task_id, deadline, hours_before) ==
    LET notify_time == deadline - hours_before * MinutesPerHour IN
    IF deadline = NullTime THEN q
    ELSE IF notify_time < now THEN q
    ELSE [rows |-> q.rows \cup {[id |-> q.nextId, task |-> task_id,
                                 action_type |-> "deadline_approaching",
                                 scheduled_for |-> notify_time,
                                 executed_at |-> NullTime,
                                 dependency_action |-> NullId,
                                 status |-> "pending"]},
          nextId |-> q.nextId + 1]

\* The two reminders create_task and update_task ask for: 24 hours and 1 hour
\* before the deadline.
schedule_reminders(q, task_id, deadline) ==
    schedule_deadline_notification(schedule_deadline_notification(q, task_id, deadline, 24),
                                   task_id, deadline, 1)

\* create_task(project, name, creator, assignee, deadline); priority is left 0.
create_task(project, creator, assignee, deadline) ==
    /\ IF ~can_create_tasks(creator)
       THEN /\ ret' = [op |-> "create_task", args |-> <<creator, assignee>>, res |-> "PermissionError"]
            /\ UNCHANGED <<tasks, events, nextTaskId, scheduled, nextSchedId>>
       ELSE IF assignee # NULL /\ ~is_member(assignee)
       THEN /\ ret' = [op |-> "create_task", args |-> <<creator, assignee>>, res |-> "ValueError"]
            /\ UNCHANGED <<tasks, events, nextTaskId, scheduled, nextSchedId>>
       ELSE LET q == schedule_reminders([rows |-> scheduled, nextId |-> nextSchedId],
                                        nextTaskId, deadline)
            IN
            /\ tasks' = (nextTaskId :> [project |-> project,
                                         status |-> "todo", creator |-> creator,
                                         assignee |-> assignee, deadline |-> deadline,
                                         priority |-> 0, created_at |-> now,
                                         updated_at |-> now, started_at |-> NullTime,
                                         completed_at |-> NullTime]) @@ tasks
            /\ nextTaskId' = nextTaskId + 1
            /\ events' = Append(events, EventRow(nextTaskId, creator, "created", NULL, NULL))
            /\ scheduled' = q.rows
            /\ nextSchedId' = q.nextId
            /\ ret' = [op |-> "create_task", args |-> <<creator, assignee>>, res |-> "ok"]
    /\ UNCHANGED <<members, deps, actions, now, nextDepId,
                   nextActionId, everFinal, statusChanges>>

\* The outcomes of one Notifier call (UserService.send_telegram_notification
\* through the event loop): delivered, refused (returns False), or an exception.
NotifierOutcomes == {"ok", "failed", "raise"}

\* send_task_notification(user, notification_type, ...) with the Notifier's
\* outcome: whether the Notifier was called, what was returned, whether it raised.
send_task_notification(user, notification_type, outcome) ==
    LET settings == NotificationSettings(user) IN
    IF notification_type = "task_ready" /\ ~settings.dependency_ready
    THEN [called |-> FALSE, returned |-> FALSE, raised |-> FALSE]
    ELSE IF notification_type = "task_completed" /\ ~settings.task_completed
    THEN [called |-> FALSE, returned |-> FALSE, raised |-> FALSE]
    ELSE IF notification_type = "task_assigned" /\ ~settings.task_assigned
    THEN [called |-> FALSE, returned |-> FALSE, raised |-> FALSE]
    ELSE [called |-> TRUE, returned |-> (outcome = "ok"), raised |-> (outcome = "raise")]

DepById(id) == CHOOSE d \in deps : d.id = id

\* .limit(n) of a query.
Take(rows, n) == IF Len(rows) <= n THEN rows ELSE SubSeq(rows, 1, n)

\* The rows a query returns, in primary-key order.
RECURSIVE ById(_)
ById(rows) ==
    IF rows = {} THEN <<>>
    ELSE LET r == CHOOSE x \in rows : \A y \in rows : x.id <= y.id
         IN <<r>> \o ById(rows \ {r})

\* .order_by(execute_order): ascending execute_order; rows of equal
\* execute_order come in the order the database returns them (rank), which the
\* query does not fix.
RECURSIVE ByExecuteOrder(_, _)
ByExecuteOrder(rows, rank) ==
    IF rows = {} THEN <<>>
    ELSE LET r == CHOOSE x \in rows : \A y \in rows :
                      \/ x.execute_order < y.execute_order
                      \/ (x.execute_order = y.execute_order /\ rank[x.id] <= rank[y.id])
         IN <<r>> \o ByExecuteOrder(rows \ {r}, rank)

\* The part of the store an evaluation of actions reads and writes, with the
\* records it returns (out), the Notifier calls it made (notified) and the
\* dependency actions it dispatched or scheduled (fired, each with whether the
\* source of its edge had entered a final status by then) and the edges whose
\* actions it evaluated (evaluated).
Ctx(t, e, s, n, ever) ==
    [tasks |-> t, events |-> e, scheduled |-> s, nextSchedId |-> n,
     everFinal |-> ever, out |-> <<>>, notified |-> <<>>, fired |-> <<>>,
     evaluated |-> <<>>]

Notify(c, action, user, notification_type, outcome) ==
    LET r == send_task_notification(user, notification_type, outcome) IN
    [c EXCEPT !.notified = IF r.called
                           THEN Append(@, [user |-> user, kind |-> notification_type,
                                           action |-> action.id, outcome |-> outcome])
                           ELSE @,
              !.out = Append(@, [action_id |-> action.id, type |-> action.code,
                                 status |-> IF r.raised THEN "failed" ELSE "executed"])]

\* execute_single_action(action, trigger_event, triggered_by)
execute_single_action(c0, action, triggered_by, outcome) ==
    LET dep == DepById(action.dependency)
        c == [c0 EXCEPT !.fired = Append(@, [action |-> action.id, source |-> dep.source,
                                             how |-> "dispatched",
                                             was_final |-> dep.source \in c0.everFinal])]
        executed == [action_id |-> action.id, type |-> action.code, status |-> "executed"]
    IN
    IF action.code = "notify_assignee"
    THEN IF c.tasks[dep.target].assignee # NULL
         THEN Notify(c, action, c.tasks[dep.target].assignee, "task_ready", outcome)
         ELSE [c EXCEPT !.out = Append(@, executed)]
    ELSE IF action.code = "notify_creator"
    THEN Notify(c, action, c.tasks[dep.source].creator, "task_completed", outcome)
    ELSE IF action.code = "notify_custom" /\ action.target_user # NULL
    THEN Notify(c, action, action.target_user, "custom", outcome)
    ELSE IF action.code = "change_status" /\ action.target_status # NULL
    THEN LET old == c.tasks[dep.target]
             new == TaskSave([old EXCEPT !.status = action.target_status])
         IN [c EXCEPT !.tasks = [@ EXCEPT ![dep.target] = new],
                      !.events = Append(@, EventRow(dep.target, triggered_by, "status_changed",
                                                    old.status, action.target_status)),
                      !.everFinal = IF is_final(action.target_status)
                                    THEN @ \cup {dep.target} ELSE @,
                      !.out = Append(@, executed)]
    ELSE [c EXCEPT !.out = Append(@, executed)]

\* The loop of execute_dependency_actions over the selected actions.
RECURSIVE RunActions(_, _, _, _)
RunActions(c, acts, triggered_by, nf) ==
    IF acts = <<>> THEN c
    ELSE LET action == Head(acts)
             dep == DepById(action.dependency)
             c1 == IF action.delay_minutes > 0
                   THEN [c EXCEPT
                           !.scheduled = @ \cup
                               {[id |-> c.nextSchedId, task |-> dep.target,
                                 action_type |-> "delayed_notification",
                                 scheduled_for |-> now + action.delay_minutes,
                                 executed_at |-> NullTime,
                                 dependency_action |-> action.id,
                                 status |-> "pending"]},
                           !.nextSchedId = @ + 1,
                           !.fired = Append(@, [action |-> action.id, source |-> dep.source,
                                                how |-> "scheduled",
                                                was_final |-> dep.source \in c.everFinal]),
                           !.out = Append(@, [action_id |-> action.id, type |-> action.code,
                                              status |-> "scheduled"])]
                   ELSE execute_single_action(c, action, triggered_by, nf.outcome[action.id])
         IN RunActions(c1, Tail(acts), triggered_by, nf)

\* execute_dependency_actions(dependency, trigger_event, triggered_by)
execute_dependency_actions(c, dep, triggered_by, nf) ==
    RunActions([c EXCEPT !.evaluated = Append(@, dep.id)],
               ByExecuteOrder({a \in actions : a.dependency = dep.id /\ a.is_active}, nf.rank),
               triggered_by, nf)

\* check_task_readiness(task), over the given task rows.
RECURSIVE AllSourcesCompleted(_, _)
AllSourcesCompleted(t, incoming) ==
    IF incoming = <<>> THEN TRUE
    ELSE IF t[Head(incoming).source].status # "completed" THEN FALSE
    ELSE AllSourcesCompleted(t, Tail(incoming))

\* check_task_readiness without the test of the task's own status.
check_task_readiness_no_status(t, task_id) ==
    LET incoming == ById({d \in deps : d.target = task_id}) IN
    IF incoming = <<>> THEN TRUE
    ELSE AllSourcesCompleted(t, incoming)

check_task_readiness_in(t, task_id) ==
    IF t[task_id].status # "todo" THEN FALSE
    ELSE LET incoming == ById({d \in deps : d.target = task_id}) IN
         IF incoming = <<>> THEN TRUE
         ELSE AllSourcesCompleted(t, incoming)

check_task_readiness(task_id) == check_task_readiness_in(tasks, task_id)

\* The loop of handle_task_completed over the outgoing dependencies.
RECURSIVE RunEdges(_, _, _, _)
RunEdges(c, outgoing, completed_by, nf) ==
    IF outgoing = <<>> THEN c
    ELSE RunEdges(execute_dependency_actions(c, Head(outgoing), completed_by, nf),
                  Tail(outgoing), completed_by, nf)

Outgoing(task_id) == {d \in deps : d.source = task_id}

\* handle_task_completed stopping after the first outgoing dependency.
handle_task_completed_first(c, task_id, completed_by, nf) ==
    RunEdges(c, Take(ById(Outgoing(task_id)), 1), completed_by, nf)

\* handle_task_completed over the incoming dependencies of the task.
handle_task_completed_incoming(c, task_id, completed_by, nf) ==
    RunEdges(c, ById({d \in deps : d.target = task_id}), completed_by, nf)

\* handle_task_completed(task, completed_by)
handle_task_completed(c, task_id, completed_by, nf) ==
    RunEdges(c, ById(Outgoing(task_id)), completed_by, nf)

\* The comparison that never finds the two statuses equal.
same_status_never(old_status, new_status_name) == FALSE

\* if old_status.id == new_status.id
same_status(old_status, new_status_name) == old_status = new_status_name

\* change_task_status(task, new_status_name, changed_by)
change_task_status(task_id, new_status_name, changed_by, nf) ==
    /\ task_id \in TaskIds
    /\ LET task == tasks[task_id]
           old_status == task.status
       IN
       IF ~can_edit_task(changed_by, task)
       THEN /\ ret' = [op |-> "change_task_status", args |-> <<task_id, new_status_name, changed_by>>, res |-> "PermissionError"]
            /\ UNCHANGED <<tasks, events, scheduled, nextSchedId, everFinal, statusChanges>>
       ELSE IF new_status_name \notin StatusNames
       THEN /\ ret' = [op |-> "change_task_status", args |-> <<task_id, new_status_name, changed_by>>, res |-> "ValueError"]
            /\ UNCHANGED <<tasks, events, scheduled, nextSchedId, everFinal, statusChanges>>
       ELSE IF same_status(old_status, new_status_name)
       THEN /\ ret' = [op |-> "change_task_status", args |-> <<task_id, new_status_name, changed_by>>, res |-> "ok", task |-> task_id,
                       status_changed |-> FALSE, old_status |-> old_status,
                       new_status |-> new_status_name, actions_executed |-> <<>>,
                       evaluated |-> <<>>, notified |-> <<>>, fired |-> <<>>]
            /\ UNCHANGED <<tasks, events, scheduled, nextSchedId, everFinal, statusChanges>>
       ELSE LET saved == TaskSave([task EXCEPT !.status = new_status_name])
                c0 == Ctx([tasks EXCEPT ![task_id] = saved],
                          Append(events, EventRow(task_id, changed_by, "status_changed",
                                                  old_status, new_status_name)),
                          scheduled, nextSchedId,
                          IF is_final(new_status_name)
                          THEN everFinal \cup {task_id} ELSE everFinal)
                crossing == is_final(new_status_name) /\ ~is_final(old_status)
                c == IF crossing
                     THEN handle_task_completed(c0, task_id, changed_by, nf)
                     ELSE c0
            IN /\ tasks' = c.tasks
               /\ events' = c.events
               /\ scheduled' = c.scheduled
               /\ nextSchedId' = c.nextSchedId
               /\ everFinal' = c.everFinal
               /\ statusChanges' = statusChanges + 1
               /\ ret' = [op |-> "change_task_status", args |-> <<task_id, new_status_name, changed_by>>, res |-> "ok", task |-> task_id,
                          status_changed |-> TRUE, old_status |-> old_status,
                          new_status |-> new_status_name, actions_executed |-> c.out,
                          evaluated |-> c.evaluated,
                          notified |-> c.notified, fired |-> c.fired]
    /\ UNCHANGED <<members, deps, actions, now, nextTaskId, nextDepId, nextActionId>>

\* would_create_cycle(source, target): the nested dfs over the edge rows `edges`,
\* with the visited set threaded through the calls.
RECURSIVE dfs(_, _, _, _), dfs_each(_, _, _, _)
dfs(edges, source_id, task_id, visited) ==
    IF task_id = source_id THEN [found |-> TRUE, visited |-> visited]
    ELSE IF task_id \in visited THEN [found |-> FALSE, visited |-> visited]
    ELSE dfs_each(edges, source_id,
                  ById({d \in edges : d.project = tasks[source_id].project
                                         /\ d.source = task_id}),
                  visited \cup {task_id})

dfs_each(edges, source_id, found_deps, visited) ==
    IF found_deps = <<>> THEN [found |-> FALSE, visited |-> visited]
    ELSE LET r == dfs(edges, source_id, Head(found_deps).target, visited) IN
         IF r.found THEN r
         ELSE dfs_each(edges, source_id, Tail(found_deps), r.visited)

\* would_create_cycle looking only at the edge target -> source.
would_create_cycle_direct(source_id, target_id) ==
    \/ source_id = target_id
    \/ \E d \in deps : d.source = target_id /\ d.target = source_id

\* would_create_cycle searching from the source for the target.
would_create_cycle_reversed(source_id, target_id) ==
    dfs(deps, target_id, source_id, {}).found

would_create_cycle(source_id, target_id) == dfs(deps, source_id, target_id, {}).found

\* source_task.project_id != target_task.project_id, negated.
same_project_always(source_id, target_id) == TRUE

same_project(source_id, target_id) ==
    tasks[source_id].project = tasks[target_id].project

\* create_dependency(source_task, target_task, created_by)
create_dependency(source_id, target_id, created_by, nf) ==
    /\ source_id \in TaskIds
    /\ target_id \in TaskIds
    /\ LET allowed == can_create_dependencies(created_by, tasks[source_id]) IN
       IF allowed = "raise"
       THEN /\ ret' = [op |-> "create_dependency", args |-> <<source_id, target_id, created_by>>, res |-> "AttributeError"]
            /\ UNCHANGED <<tasks, deps, events, scheduled, nextDepId, nextSchedId, everFinal>>
       ELSE IF allowed = "false"
       THEN /\ ret' = [op |-> "create_dependency", args |-> <<source_id, target_id, created_by>>, res |-> "PermissionError"]
            /\ UNCHANGED <<tasks, deps, events, scheduled, nextDepId, nextSchedId, everFinal>>
       ELSE IF ~same_project(source_id, target_id)
       THEN /\ ret' = [op |-> "create_dependency", args |-> <<source_id, target_id, created_by>>, res |-> "ValueError: project"]
            /\ UNCHANGED <<tasks, deps, events, scheduled, nextDepId, nextSchedId, everFinal>>
       ELSE IF would_create_cycle(source_id, target_id)
       THEN /\ ret' = [op |-> "create_dependency", args |-> <<source_id, target_id, created_by>>, res |-> "ValueError: cycle"]
            /\ UNCHANGED <<tasks, deps, events, scheduled, nextDepId, nextSchedId, everFinal>>
       ELSE IF \E d \in deps : d.source = source_id /\ d.target = target_id
       THEN /\ ret' = [op |-> "create_dependency", args |-> <<source_id, target_id, created_by>>, res |-> "ValueError: exists"]
            /\ UNCHANGED <<tasks, deps, events, scheduled, nextDepId, nextSchedId, everFinal>>
       ELSE LET dependency == [id |-> nextDepId, project |-> tasks[source_id].project,
                               source |-> source_id,
                               target |-> target_id, created_by |-> created_by]
                c0 == Ctx(tasks,
                          Append(events, EventRow(source_id, created_by, "dependency_added",
                                                  NULL, NULL)),
                          scheduled, nextSchedId, everFinal)
                c == IF is_final(tasks[source_id].status)
                     THEN execute_dependency_actions(c0, dependency, created_by, nf)
                     ELSE c0
            IN /\ deps' = deps \cup {dependency}
               /\ nextDepId' = nextDepId + 1
               /\ tasks' = c.tasks
               /\ events' = c.events
               /\ scheduled' = c.scheduled
               /\ nextSchedId' = c.nextSchedId
               /\ everFinal' = c.everFinal
               /\ ret' = [op |-> "create_dependency", args |-> <<source_id, target_id, created_by>>, res |-> "ok",
                          dependency |-> dependency, fired |-> c.fired,
                          evaluated |-> c.evaluated]
    /\ UNCHANGED <<members, actions, now, nextTaskId, nextActionId, statusChanges>>

\* ON DELETE of the foreign keys of core/db/models/task.py, when the dependency
\* rows `gone` are deleted: their actions go with them (CASCADE) and the
\* scheduled rows that referred to those actions keep a NULL (SET NULL).
ActionsAfter(gone) == {a \in actions : a.dependency \notin {d.id : d \in gone}}

ScheduledAfter(rows, gone) ==
    LET lost == {a.id : a \in actions \ ActionsAfter(gone)} IN
    {IF r.dependency_action \in lost THEN [r EXCEPT !.dependency_action = NullId] ELSE r
       : r \in rows}

\* delete_dependency(dependency, deleted_by)
delete_dependency(dep, deleted_by) ==
    /\ dep \in deps
    /\ LET role == get_user_role_in_project(deleted_by) IN
       IF role = NULL \/ ~RoleFlags(role).can_delete_dependencies
       THEN /\ ret' = [op |-> "delete_dependency", args |-> <<dep.id, deleted_by>>, res |-> "PermissionError"]
            /\ UNCHANGED <<deps, actions, scheduled, events>>
       ELSE /\ events' = Append(events, EventRow(dep.source, deleted_by,
                                                 "dependency_removed", NULL, NULL))
            /\ deps' = deps \ {dep}
            /\ actions' = ActionsAfter({dep})
            /\ scheduled' = ScheduledAfter(scheduled, {dep})
            /\ ret' = [op |-> "delete_dependency", args |-> <<dep.id, deleted_by>>, res |-> "ok"]
    /\ UNCHANGED <<members, tasks, now, nextTaskId, nextDepId, nextActionId,
                   nextSchedId, everFinal, statusChanges>>

\* delete_task without the cascade of the foreign keys.
delete_task_keeps_edges(task_id, current_user) ==
    /\ task_id \in TaskIds
    /\ tasks' = [t \in TaskIds \ {task_id} |-> tasks[t]]
    /\ ret' = [op |-> "delete_task", args |-> <<task_id, current_user>>, res |-> "ok"]
    /\ UNCHANGED <<deps, actions, scheduled, events, members, now, nextTaskId, nextDepId,
                   nextActionId, nextSchedId, everFinal, statusChanges>>

\* DELETE /{task_id}: can_delete_task, then task.delete_instance(); the rows that
\* refer to the task go with it (ON DELETE CASCADE).
delete_task(task_id, current_user) ==
    /\ task_id \in TaskIds
    /\ IF ~can_delete_task(current_user, tasks[task_id])
       THEN /\ ret' = [op |-> "delete_task", args |-> <<task_id, current_user>>, res |-> "403"]
            /\ UNCHANGED <<tasks, deps, actions, scheduled, events>>
       ELSE LET gone == {d \in deps : d.source = task_id \/ d.target = task_id} IN
            /\ tasks' = [t \in TaskIds \ {task_id} |-> tasks[t]]
            /\ deps' = deps \ gone
            /\ actions' = ActionsAfter(gone)
            /\ scheduled' = ScheduledAfter({r \in scheduled : r.task # task_id}, gone)
            /\ events' = SelectSeq(events, LAMBDA e : e.task # task_id)
            /\ ret' = [op |-> "delete_task", args |-> <<task_id, current_user>>, res |-> "ok"]
    /\ UNCHANGED <<members, now, nextTaskId, nextDepId, nextActionId, nextSchedId,
                   everFinal, statusChanges>>

\* DependencyActionType.get_default_types: the flags add_dependency_action reads.
ActionTypes ==
    [notify_assignee |-> [requires_target_user |-> FALSE, requires_template |-> TRUE],
     notify_creator  |-> [requires_target_user |-> FALSE, requires_template |-> TRUE],
     notify_custom   |-> [requires_target_user |-> TRUE, requires_template |-> TRUE],
     change_status   |-> [requires_target_user |-> FALSE, requires_template |-> FALSE],
     create_subtask  |-> [requires_target_user |-> TRUE, requires_template |-> FALSE]]

\* add_dependency_action(dependency, action_type_code, created_by, target_user,
\* target_status_name, message_template, delay_minutes, execute_order); the
\* message template is always given.
add_dependency_action(dep, action_type_code, created_by, target_user, target_status_name, delay_minutes, execute_order) ==
    /\ dep \in deps
    /\ LET role == get_user_role_in_project(created_by) IN
       IF role = NULL \/ ~RoleFlags(role).can_edit_any_task
       THEN /\ ret' = [op |-> "add_dependency_action", args |-> <<dep.id, action_type_code, created_by>>, res |-> "PermissionError"]
            /\ UNCHANGED <<actions, nextActionId>>
       ELSE IF action_type_code \notin DOMAIN ActionTypes
       THEN /\ ret' = [op |-> "add_dependency_action", args |-> <<dep.id, action_type_code, created_by>>, res |-> "ValueError"]
            /\ UNCHANGED <<actions, nextActionId>>
       ELSE IF ActionTypes[action_type_code].requires_target_user /\ target_user = NULL
       THEN /\ ret' = [op |-> "add_dependency_action", args |-> <<dep.id, action_type_code, created_by>>, res |-> "ValueError"]
            /\ UNCHANGED <<actions, nextActionId>>
       ELSE IF action_type_code = "change_status" /\ target_status_name # NULL
               /\ target_status_name \notin StatusNames
       THEN /\ ret' = [op |-> "add_dependency_action", args |-> <<dep.id, action_type_code, created_by>>, res |-> "ValueError"]
            /\ UNCHANGED <<actions, nextActionId>>
       ELSE /\ actions' = actions \cup
                 {[id |-> nextActionId, dependency |-> dep.id, code |-> action_type_code,
                   target_user |-> target_user,
                   target_status |-> IF action_type_code = "change_status"
                                     THEN target_status_name ELSE NULL,
                   delay_minutes |-> delay_minutes, execute_order |-> execute_order,
                   is_active |-> TRUE]}
            /\ nextActionId' = nextActionId + 1
            /\ ret' = [op |-> "add_dependency_action", args |-> <<dep.id, action_type_code, created_by>>, res |-> "ok"]
    /\ UNCHANGED <<members, tasks, deps, scheduled, events, now, nextTaskId,
                   nextDepId, nextSchedId, everFinal, statusChanges>>

\* action.is_active = False; action.save(): no service operation does it, the
\* row is written directly.
deactivate_action(action_id) ==
    /\ \E a \in actions : a.id = action_id /\ a.is_active
    /\ actions' = {IF a.id = action_id THEN [a EXCEPT !.is_active = FALSE] ELSE a
                     : a \in actions}
    /\ ret' = [op |-> "deactivate_action", args |-> <<action_id>>, res |-> "ok"]
    /\ UNCHANGED <<members, tasks, deps, scheduled, events, now, nextTaskId, nextDepId,
                   nextActionId, nextSchedId, everFinal, statusChanges>>

\* The 'updated' events of update_task, one per entry of its list of changes.
RECURSIVE LogChanges(_, _, _, _)
LogChanges(log, task_id, updated_by, changes) ==
    IF changes = <<>> THEN log
    ELSE LogChanges(Append(log, EventRow(task_id, updated_by, "updated",
                                         Head(changes)[2], Head(changes)[3])),
                    task_id, updated_by, Tail(changes))

\* update_task(task, updated_by, assignee=..., deadline=..., priority=...): an
\* argument left None is NULL (NullTime for the deadline, NoPriority for the
\* priority); name, description,
\* position and metadata are left None.
update_task(task_id, updated_by, assignee, deadline, priority) ==
    /\ task_id \in TaskIds
    /\ LET task == tasks[task_id]
           args == <<task_id, updated_by, assignee, deadline, priority>>
       IN
       IF ~can_edit_task(updated_by, task)
       THEN /\ ret' = [op |-> "update_task", args |-> args, res |-> "PermissionError"]
            /\ UNCHANGED <<tasks, events, scheduled, nextSchedId>>
       ELSE IF assignee # NULL /\ assignee # task.assignee /\ ~is_member(assignee)
       THEN /\ ret' = [op |-> "update_task", args |-> args, res |-> "ValueError"]
            /\ UNCHANGED <<tasks, events, scheduled, nextSchedId>>
       ELSE LET t1 == IF assignee # NULL /\ assignee # task.assignee
                      THEN [task EXCEPT !.assignee = assignee] ELSE task
                ch1 == IF assignee # NULL /\ assignee # task.assignee
                       THEN <<<<"assignee", task.assignee, assignee>>>> ELSE <<>>
                t2 == IF deadline # NullTime THEN [t1 EXCEPT !.deadline = deadline] ELSE t1
                ch2 == IF deadline # NullTime
                       THEN Append(ch1, <<"deadline", ToString(task.deadline), ToString(deadline)>>)
                       ELSE ch1
                kept == {r \in scheduled : ~(r.task = task_id
                                             /\ r.action_type = "deadline_approaching")}
                q == IF deadline # NullTime
                     THEN schedule_reminders([rows |-> kept, nextId |-> nextSchedId],
                                             task_id, deadline)
                     ELSE [rows |-> scheduled, nextId |-> nextSchedId]
                t3 == IF priority # NoPriority THEN [t2 EXCEPT !.priority = priority] ELSE t2
                ch3 == IF priority # NoPriority
                       THEN Append(ch2, <<"priority", ToString(task.priority), ToString(priority)>>)
                       ELSE ch2
            IN /\ tasks' = [tasks EXCEPT ![task_id] = TaskSave(t3)]
               /\ events' = LogChanges(events, task_id, updated_by, ch3)
               /\ scheduled' = q.rows
               /\ nextSchedId' = q.nextId
               /\ ret' = [op |-> "update_task", args |-> args, res |-> "ok"]
    /\ UNCHANGED <<members, deps, actions, now, nextTaskId, nextDepId,
                   nextActionId, everFinal, statusChanges>>

\* .limit(100) of the query of process_scheduled_actions.
ScheduledLimit == 100

ActionById(id) == CHOOSE a \in actions : a.id = id

PutRow(rows, row) == {r \in rows : r.id # row.id} \cup {row}

\* scheduled.status = 'processing'; scheduled.save(): every field of the row
\* as the tick read it is written.
mark_processing(c, row) ==
    [c EXCEPT !.scheduled = PutRow(@, [row EXCEPT !.status = "processing"])]

\* The try block of the loop for one row, up to the second save: what it did to
\* the store (c), the status it left on the row object, whether it raised and
\* whether it dispatched the row's action.
dispatch_row(c, row, nf, ns) ==
    IF row.action_type = "deadline_approaching"
    THEN LET assignee == c.tasks[row.task].assignee
             r == IF assignee # NULL
                  THEN send_task_notification(assignee, "deadline_approaching", ns[row.id])
                  ELSE [called |-> FALSE, returned |-> FALSE, raised |-> FALSE]
             c1 == IF r.called
                   THEN [c EXCEPT !.notified = Append(@, [user |-> assignee,
                                                          kind |-> "deadline_approaching",
                                                          action |-> NullId])]
                   ELSE c
         IN [c |-> c1, status |-> "completed", raised |-> r.raised, dispatched |-> TRUE]
    ELSE IF row.action_type = "delayed_notification" /\ row.dependency_action # NullId
    THEN LET action == ActionById(row.dependency_action)
             c1 == execute_single_action([c EXCEPT !.out = <<>>], action,
                                         DepById(action.dependency).created_by,
                                         nf.outcome[action.id])
         IN [c |-> [c1 EXCEPT !.out = c.out], status |-> "completed",
             raised |-> FALSE, dispatched |-> TRUE]
    ELSE [c |-> c, status |-> "processing", raised |-> FALSE, dispatched |-> FALSE]

\* The second save of the row and the record appended to the result: in the
\* except branch the status 'failed', otherwise the status the try block left
\* and executed_at = now (the time the tick started at).
finish_row(c, row, d, tick_now) ==
    IF d.raised
    THEN [c EXCEPT !.scheduled = PutRow(@, [row EXCEPT !.status = "failed"]),
                   !.out = Append(@, [id |-> row.id, status |-> "failed"])]
    ELSE [c EXCEPT !.scheduled = PutRow(@, [row EXCEPT !.status = d.status,
                                                       !.executed_at = tick_now]),
                   !.out = Append(@, [id |-> row.id, status |-> "completed"])]

\* The body of the loop of process_scheduled_actions for one selected row.
process_one(c, row, nf, ns) ==
    LET d == dispatch_row(mark_processing(c, row), row, nf, ns)
    IN finish_row(d.c, row, d, now)

RECURSIVE RunScheduled(_, _, _, _)
RunScheduled(c, rows, nf, ns) ==
    IF rows = <<>> THEN c
    ELSE RunScheduled(process_one(c, Head(rows), nf, ns), Tail(rows), nf, ns)

DueRows == {r \in scheduled : r.scheduled_for <= now /\ r.status = "pending"}

\* The orders in which a query with no ORDER BY may return its rows.
Orderings(rows) ==
    IF rows = {} THEN {<<>>}
    ELSE {f \in [1..Cardinality(rows) -> rows] :
            \A i, j \in 1..Cardinality(rows) : i # j => f[i] # f[j]}

\* select().where(scheduled_for <= now, status == 'pending').limit(100)
SelectDue == {Take(f, ScheduledLimit) : f \in Orderings(DueRows)}

\* process_scheduled_actions(), run by one worker with no other call in between.
process_scheduled_actions(nf, ns) ==
    /\ \E rows \in SelectDue :
       LET c == RunScheduled(Ctx(tasks, events, scheduled, nextSchedId, everFinal),
                             rows, nf, ns)
       IN /\ tasks' = c.tasks
          /\ events' = c.events
          /\ scheduled' = c.scheduled
          /\ everFinal' = c.everFinal
          /\ ret' = [op |-> "process_scheduled_actions", args |-> <<>>, res |-> "ok",
                     processed |-> c.out, notified |-> c.notified, fired |-> c.fired,
                     claimed |-> [i \in 1..Len(rows) |-> rows[i].id]]
    /\ UNCHANGED <<members, deps, actions, now, nextTaskId, nextDepId, nextActionId,
                   nextSchedId, statusChanges>>

\* The clock moves on.
AdvanceTime ==
    /\ now' = now + 1
    /\ UNCHANGED <<members, tasks, deps, actions, scheduled, events,
                   nextTaskId, nextDepId, nextActionId, nextSchedId, ret,
                   everFinal, statusChanges>>

\* The inputs the calls are tried with.
Assignees == {NULL, "u_dev", "u_out"}
StatusInputs == {"todo", "in_progress", "completed", "blocked", "no_such_status"}
TaskInputs == 1..MaxTasks
TaskInputsAll == 1..MaxTasksAll
ActionIds == 1..MaxActions
SchedIds == 1..MaxSched
ActionInputs ==
    {[code |-> "notify_assignee", target_user |-> NULL, target_status |-> NULL, delay |-> 0],
     [code |-> "notify_creator", target_user |-> NULL, target_status |-> NULL, delay |-> 1],
     [code |-> "notify_custom", target_user |-> NULL, target_status |-> NULL, delay |-> 0],
     [code |-> "change_status", target_user |-> NULL, target_status |-> "completed", delay |-> 0],
     [code |-> "change_status", target_user |-> NULL, target_status |-> "in_progress", delay |-> 1]}

\* What a run may allocate and write: the bounds, on the state a step leads to.
Within(maxTasks, maxDeps, maxActions, maxSched, maxEvents, maxStatusChanges, maxTime) ==
    /\ nextTaskId <= maxTasks + 1
    /\ nextDepId <= maxDeps + 1
    /\ nextActionId <= maxActions + 1
    /\ nextSchedId <= maxSched + 1
    /\ Len(events) <= maxEvents
    /\ statusChanges <= maxStatusChanges
    /\ now <= maxTime

\* What a call meets outside the store: the outcome of the Notifier call made
\* for each action, and the order in which the database returns rows that
\* the query's ORDER BY leaves equal.
Ranks(ids) ==
    {r \in [ids -> 1..Cardinality(ids)] : \A a, b \in ids : a # b => r[a] # r[b]}

Environments(ids, outcomes) ==
    {[outcome |-> o, rank |-> r] : o \in [ids -> outcomes], r \in Ranks(ids)}

AllOk == CHOOSE e \in Environments(ActionIds, {"ok"}) : TRUE

\* ---------------------------------------------------------------------------
\* The dependency graph of one project, driven by its owner: tasks are created
\* and deleted, edges inserted and removed.
BoundedGraph == Within(MaxTasks, MaxDeps, 0, 0, MaxEvents, 0, 0)

NextGraph ==
    \/ create_task(1, "u_owner", NULL, NullTime) /\ BoundedGraph' /\ Sequential
    \/ \E s \in TaskInputs, t \in TaskInputs :
          create_dependency(s, t, "u_owner", AllOk) /\ BoundedGraph' /\ Sequential
    \/ \E d \in deps :
          delete_dependency(d, "u_owner") /\ BoundedGraph' /\ Sequential
    \/ \E t \in TaskInputs :
          delete_task(t, "u_owner") /\ BoundedGraph' /\ Sequential

SpecGraph == Init /\ [][NextGraph]_vars

\* ---------------------------------------------------------------------------
\* Readiness: the owner creates tasks, inserts edges and moves tasks between
\* statuses.
ReadyStatusInputs == {"in_progress", "completed"}

BoundedReady == Within(MaxTasks, MaxDepsEngine, 0, 0, MaxEvents, MaxStatusChanges, 0)

NextReady ==
    \/ create_task(1, "u_owner", NULL, NullTime) /\ BoundedReady' /\ Sequential
    \/ \E s \in TaskInputs, t \in TaskInputs :
          create_dependency(s, t, "u_owner", AllOk) /\ BoundedReady' /\ Sequential
    \/ \E t \in TaskInputs, st \in ReadyStatusInputs :
          change_task_status(t, st, "u_owner", AllOk) /\ BoundedReady' /\ Sequential

SpecReady == Init /\ [][NextReady]_vars

\* ---------------------------------------------------------------------------
\* The dependency-action engine: the owner builds a graph, attaches actions to
\* its edges and moves tasks between statuses; the scheduler ticks and the
\* clock advances.
EngineStatusInputs == {"in_progress", "completed"}

EngineActionInputs ==
    {a \in ActionInputs : a.code \in {"notify_assignee", "notify_creator"}
                            \/ a.target_status = "completed"}

NotifierResults == Environments(ActionIds, {"ok", "raise"})

BoundedEngine ==
    Within(MaxTasks, MaxDepsEngine, MaxActions, MaxSched, MaxEventsEngine,
           MaxStatusChanges, 0)

NextEngine ==
    \/ create_task(1, "u_owner", NULL, NullTime) /\ BoundedEngine' /\ Sequential
    \/ \E s \in TaskInputs, t \in TaskInputs :
          create_dependency(s, t, "u_owner", AllOk) /\ BoundedEngine' /\ Sequential
    \/ \E d \in deps, a \in EngineActionInputs :
          add_dependency_action(d, a.code, "u_owner", a.target_user, a.target_status,
                                a.delay, 0) /\ BoundedEngine' /\ Sequential
    \/ \E t \in TaskInputs, st \in EngineStatusInputs :
          change_task_status(t, st, "u_owner", AllOk) /\ BoundedEngine' /\ Sequential

SpecEngine == Init /\ [][NextEngine]_vars

\* ---------------------------------------------------------------------------
\* The same engine on two tasks, with the scheduler's ticks and the clock.
DelayActionInputs ==
    ActionInputs \cup {[code |-> "change_status", target_user |-> NULL,
                        target_status |-> "completed", delay |-> 1]}

BoundedDelay ==
    Within(MaxTasksAll, MaxDepsAll, MaxActions, MaxSched, MaxEventsEngine,
           MaxStatusChanges, MaxTime)

NextDelay ==
    \/ create_task(1, "u_owner", NULL, NullTime) /\ BoundedDelay' /\ Sequential
    \/ \E s \in TaskInputsAll, t \in TaskInputsAll, nf \in NotifierResults :
          create_dependency(s, t, "u_owner", nf) /\ BoundedDelay' /\ Sequential
    \/ \E d \in deps, a \in DelayActionInputs :
          add_dependency_action(d, a.code, "u_owner", a.target_user, a.target_status,
                                a.delay, 0) /\ BoundedDelay' /\ Sequential
    \/ \E t \in TaskInputsAll, st \in EngineStatusInputs, nf \in NotifierResults :
          change_task_status(t, st, "u_owner", nf) /\ BoundedDelay' /\ Sequential
    \/ \E nf \in NotifierResults :
          process_scheduled_actions(nf, [i \in SchedIds |-> "ok"])
             /\ BoundedDelay' /\ Sequential
    \/ AdvanceTime /\ BoundedDelay' /\ Sequential
    \/ \E d \in deps :
          delete_dependency(d, "u_owner") /\ BoundedDelay' /\ Sequential

SpecDelay == Init /\ [][NextDelay]_vars

\* ---------------------------------------------------------------------------
\* The engine called by every kind of actor: the owner, a developer, an
\* observer and a user outside the project.
Actors == {"u_owner", "u_dev", "u_out"}
AssigneesAll == {NULL, "u_dev"}
StatusInputsAll == {"todo", "completed", "no_such_status"}

BoundedAll ==
    Within(MaxTasksAll, MaxDepsAll, 0, 0, MaxEventsAll, MaxStatusChangesAll, MaxTime)

Next ==
    \/ \E u \in Actors, assignee \in AssigneesAll :
          create_task(1, u, assignee, NullTime) /\ BoundedAll' /\ Sequential
    \/ \E t \in TaskInputsAll, u \in Actors, assignee \in AssigneesAll :
          update_task(t, u, assignee, NullTime, NoPriority) /\ BoundedAll' /\ Sequential
    \/ \E t \in TaskInputsAll, st \in StatusInputsAll, u \in Actors :
          change_task_status(t, st, u, AllOk) /\ BoundedAll' /\ Sequential
    \/ \E s \in TaskInputsAll, t \in TaskInputsAll, u \in Actors :
          create_dependency(s, t, u, AllOk) /\ BoundedAll' /\ Sequential
    \/ \E d \in deps, u \in Actors :
          delete_dependency(d, u) /\ BoundedAll' /\ Sequential
    \/ AdvanceTime /\ BoundedAll' /\ Sequential

Spec == Init /\ [][Next]_vars

\* ---------------------------------------------------------------------------
\* create_dependency called by several callers at once. A call is a sequence of
\* steps, one for each query it sends to the store; between two steps of a
\* call the steps of the others may run.

\* The return from the frames of dfs up to the next task_id that needs a
\* query: stack holds, innermost first, what is left of each frame's loop.
RECURSIVE Unwind(_, _, _)
Unwind(stack, visited, source_id) ==
    IF stack = <<>> THEN [state |-> "notfound"]
    ELSE IF Head(stack) = <<>> THEN Unwind(Tail(stack), visited, source_id)
    ELSE LET task_id == Head(Head(stack))
             rest == <<Tail(Head(stack))>> \o Tail(stack)
         IN IF task_id = source_id THEN [state |-> "found"]
            ELSE IF task_id \in visited THEN Unwind(rest, visited, source_id)
            ELSE [state |-> "select", cur |-> task_id, stack |-> rest]

Done(call, res) ==
    [pc |-> "done", source |-> call.source, target |-> call.target, res |-> res]

ConcUnchanged ==
    UNCHANGED <<members, tasks, actions, scheduled, now, nextTaskId, nextActionId,
                nextSchedId, ret, everFinal, statusChanges, workers, dispatches,
                executedWrites>>

\* The call starts: can_create_dependencies, then dfs(target.id) up to its query.
cd_begin(p, source_id, target_id, created_by) ==
    /\ calls[p].pc = "idle"
    /\ source_id \in TaskIds
    /\ target_id \in TaskIds
    /\ LET call == [pc |-> "dfs", source |-> source_id, target |-> target_id,
                    by |-> created_by, cur |-> target_id, stack |-> <<>>,
                    visited |-> {}]
           allowed == can_create_dependencies(created_by, tasks[source_id])
       IN calls' = [calls EXCEPT ![p] =
                      IF allowed = "raise" THEN Done(call, "AttributeError")
                      ELSE IF allowed = "false" THEN Done(call, "PermissionError")
                      ELSE IF ~same_project(source_id, target_id)
                      THEN Done(call, "ValueError: project")
                      ELSE IF target_id = source_id THEN Done(call, "ValueError: cycle")
                      ELSE call]
    /\ UNCHANGED <<deps, events, nextDepId>>
    /\ ConcUnchanged

\* One query of dfs: the dependencies whose source is the task being visited.
cd_dfs(p) ==
    /\ calls[p].pc = "dfs"
    /\ LET call == calls[p]
           visited == call.visited \cup {call.cur}
           found_deps == ById({d \in deps : d.project = tasks[call.source].project
                                               /\ d.source = call.cur})
           targets == [i \in 1..Len(found_deps) |-> found_deps[i].target]
           u == Unwind(<<targets>> \o call.stack, visited, call.source)
       IN calls' = [calls EXCEPT ![p] =
                      IF u.state = "found" THEN Done(call, "ValueError: cycle")
                      ELSE IF u.state = "notfound"
                      THEN [call EXCEPT !.pc = "exists", !.visited = visited]
                      ELSE [call EXCEPT !.cur = u.cur, !.stack = u.stack,
                                        !.visited = visited]]
    /\ UNCHANGED <<deps, events, nextDepId>>
    /\ ConcUnchanged

\* The query for an existing dependency between the two tasks.
cd_exists(p) ==
    /\ calls[p].pc = "exists"
    /\ LET call == calls[p] IN
       calls' = [calls EXCEPT ![p] =
                   IF \E d \in deps : d.source = call.source /\ d.target = call.target
                   THEN Done(call, "ValueError: exists")
                   ELSE [call EXCEPT !.pc = "insert"]]
    /\ UNCHANGED <<deps, events, nextDepId>>
    /\ ConcUnchanged

\* The INSERT of the dependency row; the unique index on (source_task,
\* target_task) refuses a second row for the same pair.
cd_insert(p) ==
    /\ calls[p].pc = "insert"
    /\ LET call == calls[p] IN
       IF \E d \in deps : d.source = call.source /\ d.target = call.target
       THEN /\ calls' = [calls EXCEPT ![p] = Done(call, "IntegrityError")]
            /\ UNCHANGED <<deps, nextDepId>>
       ELSE /\ deps' = deps \cup {[id |-> nextDepId,
                                   project |-> tasks[call.source].project,
                                   source |-> call.source,
                                   target |-> call.target, created_by |-> call.by]}
            /\ nextDepId' = nextDepId + 1
            /\ calls' = [calls EXCEPT ![p] = [call EXCEPT !.pc = "log"]]
    /\ UNCHANGED events
    /\ ConcUnchanged

\* TaskEvent.log and the return; the source task is not in a final status in
\* these runs, so no action is evaluated.
cd_log(p) ==
    /\ calls[p].pc = "log"
    /\ LET call == calls[p] IN
       /\ events' = Append(events, EventRow(call.source, call.by, "dependency_added",
                                            NULL, NULL))
       /\ calls' = [calls EXCEPT ![p] = Done(call, "ok")]
    /\ UNCHANGED <<deps, nextDepId>>
    /\ ConcUnchanged

BoundedConc == Within(MaxTasks, MaxDeps, 0, 0, MaxEvents, 0, 0)

NextConc ==
    \/ create_task(1, "u_owner", NULL, NullTime) /\ BoundedConc' /\ Sequential
    \/ \E p \in Callers, s \in TaskInputs, t \in TaskInputs :
          cd_begin(p, s, t, "u_owner") /\ UNCHANGED <<storage, org, account>>
    \/ \E p \in Callers : cd_dfs(p) /\ UNCHANGED <<storage, org, account>>
    \/ \E p \in Callers : cd_exists(p) /\ UNCHANGED <<storage, org, account>>
    \/ \E p \in Callers : cd_insert(p) /\ BoundedConc' /\ UNCHANGED <<storage, org, account>>
    \/ \E p \in Callers : cd_log(p) /\ BoundedConc' /\ UNCHANGED <<storage, org, account>>

SpecConc == Init /\ [][NextConc]_vars

\* ---------------------------------------------------------------------------
\* process_scheduled_actions run by several workers at once. A tick is a
\* sequence of steps: the query for the due rows, then for each row the first
\* save, the dispatch and the second save; between two steps of a worker the
\* steps of the others may run.
Bump(count, id) ==
    IF id \in DOMAIN count THEN [count EXCEPT ![id] = @ + 1] ELSE (id :> 1) @@ count

SchedUnchanged ==
    UNCHANGED <<members, deps, actions, now, nextTaskId, nextDepId, nextActionId,
                nextSchedId, statusChanges, calls>>

\* The query: the pending rows that are due, at most ScheduledLimit of them.
w_select(w) ==
    /\ workers[w].pc = "idle"
    /\ \E rows \in SelectDue :
       /\ rows # <<>>
       /\ workers' = [workers EXCEPT ![w] =
                        [pc |-> "mark", rows |-> rows, tick_now |-> now, out |-> <<>>]]
    /\ UNCHANGED <<tasks, scheduled, events, ret, everFinal, dispatches, executedWrites>>
    /\ SchedUnchanged

\* scheduled.status = 'processing'; scheduled.save()
w_mark(w) ==
    /\ workers[w].pc = "mark"
    /\ LET row == Head(workers[w].rows)
           c == mark_processing(Ctx(tasks, events, scheduled, nextSchedId, everFinal), row)
       IN /\ scheduled' = c.scheduled
          /\ workers' = [workers EXCEPT ![w].pc = "dispatch"]
    /\ UNCHANGED <<tasks, events, ret, everFinal, dispatches, executedWrites>>
    /\ SchedUnchanged

\* The try block for the row.
w_dispatch(w, nf, ns) ==
    /\ workers[w].pc = "dispatch"
    /\ LET row == Head(workers[w].rows)
           d == dispatch_row(Ctx(tasks, events, scheduled, nextSchedId, everFinal),
                             row, nf, ns)
       IN /\ tasks' = d.c.tasks
          /\ events' = d.c.events
          /\ everFinal' = d.c.everFinal
          /\ dispatches' = IF d.dispatched THEN Bump(dispatches, row.id) ELSE dispatches
          /\ workers' = [workers EXCEPT ![w] =
                           [pc |-> "finish", rows |-> @.rows, tick_now |-> @.tick_now,
                            out |-> @.out, status |-> d.status, raised |-> d.raised]]
    /\ UNCHANGED <<scheduled, ret, executedWrites>>
    /\ SchedUnchanged

\* The second save of the row; after the last row the tick returns.
w_finish(w) ==
    /\ workers[w].pc = "finish"
    /\ LET me == workers[w]
           row == Head(me.rows)
           c0 == Ctx(tasks, events, scheduled, nextSchedId, everFinal)
           c == finish_row([c0 EXCEPT !.out = me.out], row, me, me.tick_now)
       IN /\ scheduled' = c.scheduled
          /\ executedWrites' = IF me.raised THEN executedWrites
                               ELSE Bump(executedWrites, row.id)
          /\ IF Tail(me.rows) = <<>>
             THEN /\ workers' = [workers EXCEPT ![w] = IdleWorker]
                  /\ ret' = [op |-> "process_scheduled_actions", args |-> <<w>>,
                             res |-> "ok", processed |-> c.out]
             ELSE /\ workers' = [workers EXCEPT ![w] =
                                   [pc |-> "mark", rows |-> Tail(me.rows),
                                    tick_now |-> me.tick_now, out |-> c.out]]
                  /\ ret' = ret
    /\ UNCHANGED <<tasks, events, everFinal, dispatches>>
    /\ SchedUnchanged

DelayedActionInputs == {a \in ActionInputs : a.delay > 0}

BoundedSched ==
    Within(MaxTasksAll, MaxDepsAll, MaxActions, MaxSched, MaxEventsEngine,
           MaxStatusChanges, MaxTime)

NextSched ==
    \/ create_task(1, "u_owner", NULL, NullTime) /\ BoundedSched' /\ Sequential
    \/ \E s \in TaskInputsAll, t \in TaskInputsAll :
          create_dependency(s, t, "u_owner", AllOk) /\ BoundedSched' /\ Sequential
    \/ \E d \in deps, a \in DelayedActionInputs :
          add_dependency_action(d, a.code, "u_owner", a.target_user, a.target_status,
                                a.delay, 0) /\ BoundedSched' /\ Sequential
    \/ \E t \in TaskInputsAll :
          change_task_status(t, "completed", "u_owner", AllOk)
             /\ BoundedSched' /\ Sequential
    \/ AdvanceTime /\ BoundedSched' /\ Sequential
    \/ \E w \in Workers : w_select(w) /\ UNCHANGED <<storage, org, account>>
    \/ \E w \in Workers : w_mark(w) /\ UNCHANGED <<storage, org, account>>
    \/ \E w \in Workers, nf \in NotifierResults :
          w_dispatch(w, nf, [i \in SchedIds |-> "ok"]) /\ BoundedSched' /\ UNCHANGED <<storage, org, account>>
    \/ \E w \in Workers : w_finish(w) /\ UNCHANGED <<storage, org, account>>

SpecSched == Init /\ [][NextSched]_vars

\* ---------------------------------------------------------------------------
\* The scheduler under fair ticks: whenever a tick would change something, one
\* eventually runs (the worker calls process_scheduled_actions once a minute).
\* The actions are delayed notifications, so a tick writes no event and no
\* bound ever keeps it from running.
FairActionInputs == {a \in ActionInputs : a.code = "notify_creator"}

TickFair ==
    \E nf \in NotifierResults :
       process_scheduled_actions(nf, [i \in SchedIds |-> "ok"]) /\ Sequential

NextFair ==
    \/ create_task(1, "u_owner", NULL, NullTime) /\ BoundedDelay' /\ Sequential
    \/ \E s \in TaskInputsAll, t \in TaskInputsAll :
          create_dependency(s, t, "u_owner", AllOk) /\ BoundedDelay' /\ Sequential
    \/ \E d \in deps, a \in FairActionInputs :
          add_dependency_action(d, a.code, "u_owner", a.target_user, a.target_status,
                                a.delay, 0) /\ BoundedDelay' /\ Sequential
    \/ \E t \in TaskInputsAll :
          change_task_status(t, "completed", "u_owner", AllOk)
             /\ BoundedDelay' /\ Sequential
    \/ AdvanceTime /\ BoundedDelay' /\ Sequential
    \/ \E d \in deps :
          delete_dependency(d, "u_owner") /\ BoundedDelay' /\ Sequential
    \/ TickFair

SpecFair == Init /\ [][NextFair]_vars /\ WF_vars(TickFair)

\* ---------------------------------------------------------------------------
\* The queue of scheduled rows: one edge with up to two delayed notifications
\* of different delays, so that two rows with different scheduled_for are due
\* at the same tick.
QueueActionInputs ==
    {[code |-> "notify_creator", target_user |-> NULL, target_status |-> NULL, delay |-> d] :
        d \in 1..MaxDelayQueue}

QueueOk == Environments(1..MaxActionsQueue, {"ok"})

BoundedQueue ==
    Within(MaxTasksAll, MaxDepsAll, MaxActionsQueue, MaxSchedQueue, MaxEventsEngine,
           MaxStatusChanges, MaxTimeQueue)

NextQueue ==
    \/ create_task(1, "u_owner", NULL, NullTime) /\ BoundedQueue' /\ Sequential
    \/ \E s \in TaskInputsAll, t \in TaskInputsAll :
          create_dependency(s, t, "u_owner", AllOk) /\ BoundedQueue' /\ Sequential
    \/ \E d \in deps, a \in QueueActionInputs :
          add_dependency_action(d, a.code, "u_owner", a.target_user, a.target_status,
                                a.delay, 0) /\ BoundedQueue' /\ Sequential
    \/ \E t \in TaskInputsAll, nf \in QueueOk :
          change_task_status(t, "completed", "u_owner", nf)
             /\ BoundedQueue' /\ Sequential
    \/ \E nf \in QueueOk :
          process_scheduled_actions(nf, [i \in 1..MaxSchedQueue |-> "ok"])
          /\ BoundedQueue' /\ Sequential
    \/ AdvanceTime /\ BoundedQueue' /\ Sequential

SpecQueue == Init /\ [][NextQueue]_vars

\* ---------------------------------------------------------------------------
\* Two projects with the same members: the owner creates tasks in either and
\* asks for edges between any two tasks.
Projects == 1..MaxProjects

BoundedProjects == Within(MaxTasks, MaxDepsEngine, 0, 0, MaxEvents, 0, 0)

NextProjects ==
    \/ \E p \in Projects :
          create_task(p, "u_owner", NULL, NullTime) /\ BoundedProjects' /\ Sequential
    \/ \E s \in TaskInputs, t \in TaskInputs :
          create_dependency(s, t, "u_owner", AllOk) /\ BoundedProjects' /\ Sequential
    \/ \E d \in deps :
          delete_dependency(d, "u_owner") /\ BoundedProjects' /\ Sequential

SpecProjects == Init /\ [][NextProjects]_vars

\* ---------------------------------------------------------------------------
\* The timestamps of one task: it moves between statuses, is edited, and the
\* clock advances.
TimesStatusInputs == {"todo", "in_progress", "review", "completed"}

BoundedTimes ==
    Within(MaxTasksTimes, 0, 0, 0, MaxEventsTimes, MaxStatusChangesTimes, MaxTimeTimes)

NextTimes ==
    \/ create_task(1, "u_owner", NULL, NullTime) /\ BoundedTimes' /\ Sequential
    \/ \E t \in 1..MaxTasksTimes, st \in TimesStatusInputs :
          change_task_status(t, st, "u_owner", AllOk) /\ BoundedTimes' /\ Sequential
    \/ \E t \in 1..MaxTasksTimes :
          update_task(t, "u_owner", NULL, NullTime, NoPriority) /\ BoundedTimes' /\ Sequential
    \/ AdvanceTime /\ BoundedTimes' /\ Sequential

SpecTimes == Init /\ [][NextTimes]_vars

\* ---------------------------------------------------------------------------
\* The batch of actions of one edge: up to two notifications, immediate or
\* delayed, with equal or different execute_order, active or deactivated; the
\* Notifier delivers, refuses or raises.
BatchActionInputs ==
    {[code |-> "notify_creator", target_user |-> NULL, target_status |-> NULL,
      delay |-> d, execute_order |-> o] : d \in 0..1, o \in 0..MaxOrderBatch}

BatchEnvironments == Environments(1..MaxActionsBatch, NotifierOutcomes)

BoundedBatch ==
    Within(MaxTasksAll, MaxDepsAll, MaxActionsBatch, MaxSchedBatch, MaxEventsEngine,
           MaxStatusChangesBatch, 0)

NextBatch ==
    \/ create_task(1, "u_owner", NULL, NullTime) /\ BoundedBatch' /\ Sequential
    \/ \E s \in TaskInputsAll, t \in TaskInputsAll :
          create_dependency(s, t, "u_owner", AllOk) /\ BoundedBatch' /\ Sequential
    \/ \E d \in deps, a \in BatchActionInputs :
          add_dependency_action(d, a.code, "u_owner", a.target_user, a.target_status,
                                a.delay, a.execute_order) /\ BoundedBatch' /\ Sequential
    \/ \E a \in 1..MaxActionsBatch :
          deactivate_action(a) /\ BoundedBatch' /\ Sequential
    \/ \E t \in TaskInputsAll, nf \in BatchEnvironments :
          change_task_status(t, "completed", "u_owner", nf) /\ BoundedBatch' /\ Sequential

SpecBatch == Init /\ [][NextBatch]_vars

\* ---------------------------------------------------------------------------
\* Cascades: three tasks, two edges, and an immediate change_status action on
\* an edge, so that completing one task writes the status of the next, which
\* has an outgoing edge of its own.
CascadeActionInputs ==
    {[code |-> "change_status", target_user |-> NULL, target_status |-> st, delay |-> 0] :
        st \in {"in_progress", "completed"}}

BoundedCascade ==
    Within(MaxTasks, MaxDepsEngine, MaxActions, 0, MaxEventsCascade,
           MaxStatusChangesBatch, 0)

NextCascade ==
    \/ create_task(1, "u_owner", NULL, NullTime) /\ BoundedCascade' /\ Sequential
    \/ \E s \in TaskInputs, t \in TaskInputs :
          create_dependency(s, t, "u_owner", AllOk) /\ BoundedCascade' /\ Sequential
    \/ \E d \in deps, a \in CascadeActionInputs :
          add_dependency_action(d, a.code, "u_owner", a.target_user, a.target_status,
                                a.delay, 0) /\ BoundedCascade' /\ Sequential
    \/ \E t \in TaskInputs :
          change_task_status(t, "completed", "u_owner", AllOk)
             /\ BoundedCascade' /\ Sequential

SpecCascade == Init /\ [][NextCascade]_vars

\* ---------------------------------------------------------------------------
\* Notifications and preferences: tasks created by the owner or the developer,
\* assigned to the developer or to nobody, one immediate notification on the
\* edge between them.
NotifyActionInputs ==
    {[code |-> c, target_user |-> u] :
        c \in {"notify_assignee", "notify_creator", "notify_custom"},
        u \in {"u_owner", "u_dev"}}

BoundedNotify ==
    Within(MaxTasksAll, MaxDepsAll, MaxActions, 0, MaxEventsEngine,
           MaxStatusChangesBatch, 0)

NextNotify ==
    \/ \E u \in {"u_owner", "u_dev"}, assignee \in AssigneesAll :
          create_task(1, u, assignee, NullTime) /\ BoundedNotify' /\ Sequential
    \/ \E s \in TaskInputsAll, t \in TaskInputsAll :
          create_dependency(s, t, "u_owner", AllOk) /\ BoundedNotify' /\ Sequential
    \/ \E d \in deps, a \in NotifyActionInputs :
          add_dependency_action(d, a.code, "u_owner", a.target_user, NULL, 0, 0)
             /\ BoundedNotify' /\ Sequential
    \/ \E t \in TaskInputsAll, nf \in NotifierResults :
          change_task_status(t, "completed", "u_owner", nf) /\ BoundedNotify' /\ Sequential

SpecNotify == Init /\ [][NextNotify]_vars

\* ---------------------------------------------------------------------------
\* Editing one task: it is created with or without a deadline and edited
\* (assignee, deadline, priority, or nothing) while the clock advances.
DeadlineInputs == {NullTime, 61, 1441, 1500}

PriorityInputs == {NoPriority, 0, 1}

BoundedUpdate ==
    Within(MaxTasksTimes, 0, 0, MaxSchedUpdate, MaxEventsUpdate, 0, MaxTimeQueue)

NextUpdate ==
    \/ \E dl \in DeadlineInputs :
          create_task(1, "u_owner", NULL, dl) /\ BoundedUpdate' /\ Sequential
    \/ \E t \in 1..MaxTasksTimes, a \in AssigneesAll, dl \in DeadlineInputs,
          pr \in PriorityInputs :
          update_task(t, "u_owner", a, dl, pr) /\ BoundedUpdate' /\ Sequential
    \/ AdvanceTime /\ BoundedUpdate' /\ Sequential

SpecUpdate == Init /\ [][NextUpdate]_vars

\* ---------------------------------------------------------------------------
\* Members come and go: tasks are created and assigned, members are removed
\* from the project, and tasks change status.
BoundedMembers ==
    Within(MaxTasksAll, 0, 0, 0, MaxEventsUpdate, MaxStatusChangesBatch, 0)

NextMembers ==
    \/ \E u \in Actors, assignee \in AssigneesAll :
          create_task(1, u, assignee, NullTime) /\ BoundedMembers' /\ Sequential
    \/ \E t \in TaskInputsAll, assignee \in AssigneesAll :
          update_task(t, "u_owner", assignee, NullTime, NoPriority)
             /\ BoundedMembers' /\ Sequential
    \/ \E u \in Actors, by \in Actors :
          remove_member(u, by) /\ BoundedMembers' /\ Sequential
    \/ \E t \in TaskInputsAll, st \in EngineStatusInputs, u \in Actors :
          change_task_status(t, st, u, AllOk) /\ BoundedMembers' /\ Sequential

SpecMembers == Init /\ [][NextMembers]_vars

\* ------------------------------------------------------------ graph notions
\* The tasks reached from the tasks of `from` along edges of `edges`.
RECURSIVE ReachSet(_, _)
ReachSet(edges, from) ==
    LET more == from \cup {d.target : d \in {e \in edges : e.source \in from}} IN
    IF more = from THEN from ELSE ReachSet(edges, more)

\* b is reached from a along one or more edges.
ReachableAlongEdges(edges, a, b) ==
    b \in ReachSet(edges, {d.target : d \in {e \in edges : e.source = a}})

Acyclic(edges) == \A d \in edges : ~ReachableAlongEdges(edges, d.target, d.source)

\* C1: after any sequence of successful or failed create_dependency,
\* delete_dependency and task deletions, the dependency edges of the project
\* contain no directed cycle.
C1_Acyclic == Acyclic(deps)

\* C1 witness: an edge that would close a cycle over two edges has just been
\* refused, in a run in which a dependency was deleted before.
C1_Witness ==
    /\ ret.op = "create_dependency"
    /\ ret.res = "ValueError: cycle"
    /\ Cardinality(deps) >= 2
    /\ \E i \in 1..Len(events) : events[i].event_type = "dependency_removed"

\* C3: create_dependency(s, t) with s already reached from t along existing
\* edges fails and writes nothing: dependencies, events and scheduled actions
\* (and tasks and actions) stay as they were; the failure is the
\* would-create-a-cycle error whenever the caller passes the authorization
\* check that comes first.
C3_CycleRejected ==
    [][(/\ ret'.op = "create_dependency"
        /\ now' = now
        /\ ret'.args[1] \in TaskIds
        /\ ret'.args[2] \in TaskIds
        /\ ReachableAlongEdges(deps, ret'.args[2], ret'.args[1]))
       => (/\ ret'.res # "ok"
           /\ UNCHANGED <<tasks, deps, actions, scheduled, events>>
           /\ (can_create_dependencies(ret'.args[3], tasks[ret'.args[1]]) = "true"
                 => ret'.res = "ValueError: cycle"))]_vars

\* C3 witness: with edges A -> B and B -> C present, create_dependency(C, A)
\* has just been refused as a cycle.
C3_Witness ==
    /\ ret.op = "create_dependency"
    /\ ret.res = "ValueError: cycle"
    /\ \E d1 \in deps, d2 \in deps :
          /\ d1.target = d2.source
          /\ ret.args[1] = d2.target
          /\ ret.args[2] = d1.source
          /\ d1.source # d2.target

\* C4: check_task_readiness(t) is true exactly when t is 'todo' and no incoming
\* edge of t has a source whose status is other than 'completed'; in a chain
\* A -> B -> C of todo tasks A is ready and B, C are not, with A completed B is
\* ready and C is not, and with B completed too C is ready.
IsChain(a, b, c) ==
    /\ Cardinality({a, b, c}) = 3
    /\ {<<d.source, d.target>> : d \in deps} = {<<a, b>>, <<b, c>>}

C4_Readiness ==
    /\ \A t \in TaskIds :
          check_task_readiness(t) <=>
             (/\ tasks[t].status = "todo"
              /\ ~\E d \in deps : d.target = t /\ tasks[d.source].status # "completed")
    /\ \A a \in TaskIds, b \in TaskIds, c \in TaskIds :
          IsChain(a, b, c) /\ tasks[c].status = "todo" =>
             /\ (tasks[a].status = "todo" /\ tasks[b].status = "todo") =>
                   (check_task_readiness(a) /\ ~check_task_readiness(b)
                      /\ ~check_task_readiness(c))
             /\ (tasks[a].status = "completed" /\ tasks[b].status = "todo") =>
                   (check_task_readiness(b) /\ ~check_task_readiness(c))
             /\ (tasks[a].status = "completed" /\ tasks[b].status = "completed") =>
                   check_task_readiness(c)

\* C4 witness: in the chain A -> B -> C, A and then B have been completed by
\* change_task_status and C, still todo, is ready.
C4_Witness ==
    \E a \in TaskIds, b \in TaskIds, c \in TaskIds :
       /\ IsChain(a, b, c)
       /\ tasks[a].status = "completed"
       /\ tasks[b].status = "completed"
       /\ tasks[c].status = "todo"
       /\ check_task_readiness(c)
       /\ ret.op = "change_task_status"
       /\ ret.args[1] = b

\* C5: a successful change_task_status evaluates the actions of every outgoing
\* edge of the task, each edge once, exactly when the old status is not final
\* and the new one is; otherwise it evaluates none and dispatches nothing.
C5_EvaluatesOnCrossing ==
    (ret.op = "change_task_status" /\ ret.res = "ok") =>
       LET out == {d \in deps : d.source = ret.task}
           crossing == ret.old_status # "completed" /\ ret.new_status = "completed"
       IN IF crossing
          THEN /\ {ret.evaluated[i] : i \in 1..Len(ret.evaluated)} = {d.id : d \in out}
               /\ Len(ret.evaluated) = Cardinality(out)
               /\ {ret.fired[i].action : i \in 1..Len(ret.fired)} =
                     {a.id : a \in {x \in actions : x.is_active
                                       /\ x.dependency \in {d.id : d \in out}}}
          ELSE ret.evaluated = <<>> /\ ret.fired = <<>>

\* C5 witness: a task with two outgoing edges, one of them carrying an action,
\* has been moved from a non-final status to 'completed'.
C5_Witness ==
    /\ ret.op = "change_task_status"
    /\ ret.res = "ok"
    /\ ret.status_changed
    /\ ret.new_status = "completed"
    /\ Len(ret.evaluated) = 2
    /\ Len(ret.fired) = 1

\* C6: whatever dispatches or schedules a DependencyAction (change_task_status,
\* create_dependency, a scheduler tick), the source of the action's edge had
\* entered a final status before; so has the source of every edge whose action
\* a scheduled row refers to.
C6_FiredAfterFinal ==
    /\ (ret.op \in {"change_task_status", "create_dependency",
                    "process_scheduled_actions"} /\ ret.res = "ok") =>
          \A i \in 1..Len(ret.fired) : ret.fired[i].was_final
    /\ \A r \in scheduled : r.dependency_action # NullId =>
          DepById(ActionById(r.dependency_action).dependency).source \in everFinal

\* C6 witness: a scheduler tick has dispatched a delayed action.
C6_Witness ==
    /\ ret.op = "process_scheduled_actions"
    /\ Len(ret.fired) = 1
    /\ ret.fired[1].was_final
    /\ \E r \in scheduled : r.status = "completed" /\ r.dependency_action # NullId

\* C7: change_task_status(t, S) by an actor allowed to edit t, when the status
\* of t is already S, returns status_changed = false and no executed action,
\* appends no event, dispatches and schedules nothing and leaves the task row
\* as it was.
C7_SameStatusNoOp ==
    [][(/\ ret'.op = "change_task_status"
        /\ now' = now
        /\ can_edit_task(ret'.args[3], tasks[ret'.args[1]])
        /\ tasks[ret'.args[1]].status = ret'.args[2])
       => (/\ ret'.res = "ok"
           /\ ~ret'.status_changed
           /\ ret'.actions_executed = <<>>
           /\ ret'.fired = <<>>
           /\ events' = events
           /\ scheduled' = scheduled
           /\ tasks' = tasks)]_vars

\* C7 witness: such a call has returned, later than the last write of the row.
C7_Witness ==
    /\ ret.op = "change_task_status"
    /\ ret.res = "ok"
    /\ ~ret.status_changed
    /\ ret.args[1] \in TaskIds
    /\ tasks[ret.args[1]].updated_at < now

\* C8: a change_task_status that moved a task from a final status to a
\* non-final one was called by an actor whose role has edit_any_task.
C8_ReopenNeedsEditAny ==
    (/\ ret.op = "change_task_status"
     /\ ret.res = "ok"
     /\ ret.status_changed
     /\ ret.old_status = "completed"
     /\ ret.new_status # "completed")
    => (/\ ret.args[3] \in DOMAIN members
        /\ RoleFlags(members[ret.args[3]]).can_edit_any_task)

\* The capability each operation requires, as the role flags and the task say.
HasFlags(user) ==
    IF user \in DOMAIN members /\ members[user] # NULL
    THEN RoleFlags(members[user])
    ELSE RoleFlags("observer")

MayEdit(user, task) ==
    \/ HasFlags(user).can_edit_any_task
    \/ HasFlags(user).can_edit_own_task /\ user \in {task.creator, task.assignee}

LacksCapability(call) ==
    CASE call.op = "create_task" -> ~HasFlags(call.args[1]).can_create_tasks
      [] call.op = "update_task" -> ~MayEdit(call.args[2], tasks[call.args[1]])
      [] call.op = "change_task_status" -> ~MayEdit(call.args[3], tasks[call.args[1]])
      [] call.op = "create_dependency" ->
            ~(/\ HasFlags(call.args[3]).can_create_dependencies
              /\ \/ HasFlags(call.args[3]).can_edit_any_task
                 \/ call.args[3] \in {tasks[call.args[1]].creator,
                                      tasks[call.args[1]].assignee})
      [] call.op = "delete_dependency" -> ~HasFlags(call.args[2]).can_delete_dependencies
      [] OTHER -> FALSE

\* C9: create_task, update_task, change_task_status, create_dependency and
\* delete_dependency called by an actor who lacks the required capability fail
\* with a permission error and leave every task, dependency, action, event and
\* scheduled row as it was.
C9_DeniedWithoutCapability ==
    [][(now' = now /\ LacksCapability(ret'))
       => (/\ ret'.res = "PermissionError"
           /\ UNCHANGED <<tasks, deps, actions, events, scheduled>>)]_vars

\* C9 with the AttributeError of can_create_dependencies counted as a denial.
C9_DeniedOrRaised ==
    [][(now' = now /\ LacksCapability(ret'))
       => (/\ ret'.res \in {"PermissionError", "AttributeError"}
           /\ UNCHANGED <<tasks, deps, actions, events, scheduled>>)]_vars

\* C2: with create_dependency calls interleaved at their queries, the edge set
\* never holds a cycle, and no two calls that returned a dependency inserted
\* the two directions of one pair of tasks.
C2_ConcurrentAcyclic ==
    /\ Acyclic(deps)
    /\ ~\E p \in Callers, q \in Callers :
          /\ calls[p].pc = "done" /\ calls[p].res = "ok"
          /\ calls[q].pc = "done" /\ calls[q].res = "ok"
          /\ calls[p].source = calls[q].target
          /\ calls[p].target = calls[q].source

\* C10: with the ticks of several workers interleaved at their queries and
\* saves, no ScheduledAction is dispatched more than once, and every row whose
\* status is 'completed' has an executed_at that was written exactly once.
C10_DispatchedOnce ==
    \A r \in scheduled :
       /\ r.id \in DOMAIN dispatches => dispatches[r.id] <= 1
       /\ r.status = "completed" =>
             /\ r.executed_at # NullTime
             /\ r.id \in DOMAIN executedWrites
             /\ executedWrites[r.id] = 1

\* C11: a ScheduledAction that a tick takes out of 'pending' is, when the tick
\* returns, 'completed' or 'failed' with executed_at equal to the tick's time,
\* whatever its action_type and whether or not its dependency_action is null.
C11_ClaimedRowsFinished ==
    [][\A r \in scheduled : \A r2 \in scheduled' :
          (r2.id = r.id /\ r.status = "pending" /\ r2.status # "pending")
          => (r2.status \in {"completed", "failed"} /\ r2.executed_at = now)]_vars

RowStatus(id) ==
    IF \E r \in scheduled : r.id = id
    THEN (CHOOSE r \in scheduled : r.id = id).status
    ELSE "none"

RowDue(id) ==
    \E r \in scheduled : r.id = id /\ r.status = "pending" /\ r.scheduled_for <= now

\* C12: under fair ticks every ScheduledAction that is pending and due
\* eventually reaches 'completed' or 'failed' (a row left in 'processing' is to
\* be swept back to 'pending' and processed).
C12_DueEventuallyProcessed ==
    \A id \in SchedIds : RowDue(id) ~> (RowStatus(id) \in {"completed", "failed"})

ScheduledFor(id) == (CHOOSE r \in scheduled : r.id = id).scheduled_for

\* C13: a tick claims only rows that are 'pending' with scheduled_for <= now,
\* at most 100 of them, in ascending scheduled_for order.
C13_EarliestDueFirst ==
    [][(ret'.op = "process_scheduled_actions" /\ now' = now)
       => LET claimed == ret'.claimed IN
          /\ Len(claimed) <= 100
          /\ \A i \in 1..Len(claimed) :
                \E r \in scheduled : /\ r.id = claimed[i]
                                     /\ r.status = "pending"
                                     /\ r.scheduled_for <= now
          /\ \A i, j \in 1..Len(claimed) :
                i < j => ScheduledFor(claimed[i]) <= ScheduledFor(claimed[j])]_vars

\* C14: every dependency joins two different tasks of one project, which is
\* the dependency's project; create_dependency(v, v) and create_dependency
\* between tasks of two projects fail and write no row.
C14_SameProjectNoLoop ==
    [][/\ \A d \in deps' : /\ tasks'[d.source].project = d.project
                           /\ tasks'[d.target].project = d.project
                           /\ d.source # d.target
       /\ ret'.op = "create_dependency"
          => LET s == ret'.args[1]
                 t == ret'.args[2]
             IN (s = t \/ tasks[s].project # tasks[t].project)
                => /\ ret'.res \in {"ValueError: cycle", "ValueError: project"}
                   /\ UNCHANGED <<tasks, deps, actions, scheduled, events>>]_vars

C14_Witness ==
    /\ ret.op = "create_dependency"
    /\ ret.res = "ValueError: project"
    /\ tasks[ret.args[1]].project # tasks[ret.args[2]].project
    /\ \E d \in deps : d.source = ret.args[1]

\* C15: every task whose status is final has a completed_at, not earlier than
\* its created_at, whether change_task_status or a change_status action
\* (dispatched at once or by a tick) wrote the status.
C15_FinalHasCompletedAt ==
    \A t \in TaskIds :
       is_final(tasks[t].status)
       => (tasks[t].completed_at # NullTime /\ tasks[t].completed_at >= tasks[t].created_at)

\* C15 witness: a tick has dispatched a delayed change_status action that
\* completed its target, later than the target was created.
C15_Witness ==
    \E r \in scheduled :
       /\ r.status = "completed"
       /\ \E a \in actions : /\ a.id = r.dependency_action
                             /\ a.code = "change_status"
                             /\ a.target_status = "completed"
       /\ tasks[r.task].status = "completed"
       /\ tasks[r.task].completed_at = r.executed_at
       /\ tasks[r.task].completed_at > tasks[r.task].created_at

\* C16: started_at is written once, by the first transition into in_progress,
\* and completed_at once, by the first transition into a final status; no
\* later step changes either.
C16_TimestampsSetOnce ==
    [][\A t \in TaskIds :
          LET old == tasks[t]
              new == tasks'[t]
          IN /\ old.started_at # NullTime => new.started_at = old.started_at
             /\ old.completed_at # NullTime => new.completed_at = old.completed_at
             /\ old.started_at = NullTime
                => IF old.status # "in_progress" /\ new.status = "in_progress"
                   THEN new.started_at = now
                   ELSE new.started_at = NullTime
             /\ old.completed_at = NullTime
                => IF ~is_final(old.status) /\ is_final(new.status)
                   THEN new.completed_at = now
                   ELSE new.completed_at = NullTime]_vars

\* C16 witness: the task was started, left in_progress, was completed,
\* reopened, edited and completed again, each later than the first time.
C16_Witness ==
    \E t \in TaskIds :
       /\ tasks[t].status = "completed"
       /\ tasks[t].started_at # NullTime
       /\ tasks[t].started_at < tasks[t].completed_at
       /\ tasks[t].completed_at < tasks[t].updated_at
       /\ \E i, j \in 1..Len(events) :
             /\ i < j
             /\ events[i].new_value = "completed"
             /\ events[j].new_value = "completed"

\* C17: the actions an evaluation of an edge dispatches or schedules are
\* exactly the edge's actions with is_active = true, each once, in ascending
\* execute_order and, among equal execute_order, in insertion order.
C17_ActiveInOrder ==
    [][(ret'.op = "change_task_status" /\ ret'.res = "ok")
       => \A d \in deps :
             LET active == {a \in actions : a.dependency = d.id /\ a.is_active}
                 all == {a.id : a \in {b \in actions : b.dependency = d.id}}
                 F == ret'.fired
                 idx == {i \in 1..Len(F) : F[i].action \in all}
             IN (\E k \in 1..Len(ret'.evaluated) : ret'.evaluated[k] = d.id)
                => /\ {F[i].action : i \in idx} = {a.id : a \in active}
                   /\ Cardinality(idx) = Cardinality(active)
                   /\ \A i, j \in idx :
                         i < j
                         => LET a == ActionById(F[i].action)
                                b == ActionById(F[j].action)
                            IN \/ a.execute_order < b.execute_order
                               \/ (a.execute_order = b.execute_order /\ a.id < b.id)]_vars

\* C18: an evaluation does not dispatch an active action with delay_minutes > 0
\* but creates one 'delayed_notification' row for it ('pending', scheduled_for
\* = now + delay_minutes, dependency_action = the action) and reports it as
\* 'scheduled'; the ticks dispatch such a row not before scheduled_for and
\* exactly once.
C18_DelayedThenDispatchedOnce ==
    [][/\ statusChanges' # statusChanges
          => \A a \in actions :
                (/\ a.is_active
                 /\ a.delay_minutes > 0
                 /\ \E k \in 1..Len(ret'.evaluated) : ret'.evaluated[k] = a.dependency)
                => LET created == {r \in scheduled' \ scheduled : r.dependency_action = a.id}
                   IN /\ Cardinality(created) = 1
                      /\ \A r \in created : /\ r.action_type = "delayed_notification"
                                            /\ r.status = "pending"
                                            /\ r.scheduled_for = now + a.delay_minutes
                      /\ \E i \in 1..Len(ret'.actions_executed) :
                            /\ ret'.actions_executed[i].action_id = a.id
                            /\ ret'.actions_executed[i].status = "scheduled"
                      /\ \A i \in 1..Len(ret'.notified) : ret'.notified[i].action # a.id
       /\ \A r \in scheduled' :
             /\ (r.id \in DOMAIN dispatches' /\ r.id \notin DOMAIN dispatches)
                => r.scheduled_for <= now
             /\ r.id \in DOMAIN dispatches' => dispatches'[r.id] <= 1
             /\ (r.status = "completed" /\ r.dependency_action # NullId)
                => (r.id \in DOMAIN dispatches' /\ dispatches'[r.id] = 1)]_vars

\* C19: a change_task_status that changed the status returns with
\* status_changed true and the status written, whatever happened to the
\* actions; its records are one per active action, in dispatch order, and the
\* record of an action is 'failed' exactly when the Notifier call made for
\* it failed (it refused or raised).
C19_FailedRecordPerFailure ==
    [][statusChanges' # statusChanges
       => LET out == ret'.actions_executed
              F == ret'.fired
              N == ret'.notified
          IN /\ ret'.res = "ok"
             /\ ret'.status_changed
             /\ tasks'[ret'.task].status = ret'.new_status
             /\ Len(out) = Len(F)
             /\ \A i \in 1..Len(out) : out[i].action_id = F[i].action
             /\ {F[i].action : i \in 1..Len(F)}
                   = {a.id : a \in {b \in actions :
                         /\ b.is_active
                         /\ \E k \in 1..Len(ret'.evaluated) :
                               ret'.evaluated[k] = b.dependency}}
             /\ \A i \in 1..Len(out) :
                   out[i].status = "failed"
                   <=> \E k \in 1..Len(N) : /\ N[k].action = out[i].action_id
                                            /\ N[k].outcome \in {"failed", "raise"}]_vars

\* C20: in a call of change_task_status, every task that goes from a non-final
\* to a final status, the task of the call or the target of a change_status
\* action, has the actions of its outgoing edges evaluated in that call; no
\* other edge is evaluated; and the status events written carry the caller.
C20_CascadeThroughEngine ==
    [][statusChanges' # statusChanges
       => LET crossed == {t \in TaskIds : ~is_final(tasks[t].status)
                                            /\ is_final(tasks'[t].status)}
              evaluated == {ret'.evaluated[k] : k \in 1..Len(ret'.evaluated)}
          IN /\ \A d \in deps : d.source \in crossed => d.id \in evaluated
             /\ \A d \in deps : d.id \in evaluated => d.source \in crossed
             /\ \A i \in (Len(events) + 1)..Len(events') :
                   events'[i].user = ret'.args[3]]_vars

\* The preference that gates a notification of the given type for the user.
Prefers(user, kind) ==
    CASE kind = "task_ready" -> NotificationSettings(user).dependency_ready
      [] kind = "task_completed" -> NotificationSettings(user).task_completed
      [] OTHER -> TRUE

\* C21: the Notifier is not called for a recipient who switched the relevant
\* preference off, the record of such an action does not report it as
\* executed, and a custom notification is sent whatever the preferences.
C21_PreferencesRespected ==
    [][statusChanges' # statusChanges
       => LET out == ret'.actions_executed
              N == ret'.notified
          IN /\ \A k \in 1..Len(N) : Prefers(N[k].user, N[k].kind)
             /\ \A i \in 1..Len(out) :
                   LET a == ActionById(out[i].action_id)
                       dep == DepById(a.dependency)
                       gated ==
                          \/ /\ a.code = "notify_assignee"
                             /\ tasks[dep.target].assignee # NULL
                             /\ ~Prefers(tasks[dep.target].assignee, "task_ready")
                          \/ /\ a.code = "notify_creator"
                             /\ ~Prefers(tasks[dep.source].creator, "task_completed")
                   IN /\ gated => out[i].status # "executed"
                      /\ (a.code = "notify_custom" /\ a.target_user # NULL)
                         => \E k \in 1..Len(N) : /\ N[k].action = a.id
                                                 /\ N[k].user = a.target_user]_vars

\* C22: an update_task whose given values equal the task's current values
\* appends no event and leaves the scheduled rows alone; otherwise it appends
\* one 'updated' event for each field whose value changes.
C22_UpdateLogsChanges ==
    [][(ret'.op = "update_task" /\ ret'.res = "ok" /\ now' = now)
       => LET task == tasks[ret'.args[1]]
              assignee == ret'.args[3]
              deadline == ret'.args[4]
              priority == ret'.args[5]
              changed ==
                 (IF assignee # NULL /\ assignee # task.assignee THEN 1 ELSE 0)
                 + (IF deadline # NullTime /\ deadline # task.deadline THEN 1 ELSE 0)
                 + (IF priority # NoPriority /\ priority # task.priority THEN 1 ELSE 0)
          IN /\ Len(events') = Len(events) + changed
             /\ \A i \in (Len(events) + 1)..Len(events') :
                   events'[i].event_type = "updated"
             /\ changed = 0 => (events' = events /\ scheduled' = scheduled)]_vars

\* The times of the reminders of a deadline that are not before `from`.
Reminders(deadline, from) ==
    IF deadline = NullTime THEN {}
    ELSE {x \in {deadline - h * MinutesPerHour : h \in {24, 1}} : x >= from}

PendingReminders(rows, t) ==
    {r \in rows : r.task = t /\ r.action_type = "deadline_approaching"
                             /\ r.status = "pending"}

\* C23: a create_task, and an update_task that gives a deadline, leave as the
\* task's pending deadline reminders exactly the T-24h and T-1h reminders of
\* that deadline that are not in the past, one row each; every other step
\* leaves the task's deadline and its reminders as they were.
C23_RemindersOfCurrentDeadline ==
    [][\A t \in DOMAIN tasks' :
          LET written ==
                 \/ t \notin DOMAIN tasks
                 \/ /\ ret'.op = "update_task" /\ ret'.res = "ok" /\ now' = now
                    /\ ret'.args[1] = t /\ ret'.args[4] # NullTime
              pending == PendingReminders(scheduled', t)
          IN IF written
             THEN /\ {r.scheduled_for : r \in pending} = Reminders(tasks'[t].deadline, now)
                  /\ Cardinality(pending) = Cardinality(Reminders(tasks'[t].deadline, now))
             ELSE /\ pending = PendingReminders(scheduled, t)
                  /\ tasks'[t].deadline = tasks[t].deadline]_vars

\* C23 witness: after the deadline was changed, the task has the two reminders
\* of its new deadline, both written by the update, and the clock has moved.
C23_Witness ==
    /\ ret.op = "update_task"
    /\ ret.res = "ok"
    /\ now > 0
    /\ \E t \in DOMAIN tasks :
          /\ tasks[t].deadline = 1500
          /\ {r.scheduled_for : r \in PendingReminders(scheduled, t)} = {60, 1440}
          /\ \A r \in PendingReminders(scheduled, t) : r.id > 2

\* C24: when a status transition of a task succeeds, the task's assignee, if
\* it has one, is an active member of the project at that moment.
C24_AssigneeIsMember ==
    [][statusChanges' # statusChanges
       => LET assignee == tasks'[ret'.task].assignee
          IN assignee # NULL => (assignee \in DOMAIN members' /\ members'[assignee] # NULL)]_vars

\* C25: can_create_dependencies(user, task) is true exactly when the user's
\* role has create_dependencies and either has edit_any_task or the user is
\* the task's creator or assignee, and false otherwise; it never raises, also
\* for a task without assignee.
C25_CanCreateDependencies ==
    \A u \in Actors, t \in TaskIds :
       can_create_dependencies(u, tasks[t])
          = IF /\ HasFlags(u).can_create_dependencies
               /\ \/ HasFlags(u).can_edit_any_task
                  \/ u \in {tasks[t].creator, tasks[t].assignee}
            THEN "true" ELSE "false"

\* ---------------------------------------------------------------------------
\* Deletion: the owner builds tasks with deadlines, edges and delayed actions,
\* completes a task and deletes tasks.
DeleteDeadlineInputs == {NullTime, 61}

DeleteActionInputs ==
    {[code |-> "notify_creator", target_user |-> NULL, target_status |-> NULL, delay |-> 1]}

BoundedDelete ==
    Within(MaxTasksAll, MaxDepsEngine, MaxActions, MaxSchedDelete, MaxEvents,
           MaxStatusChangesBatch, 0)

NextDelete ==
    \/ \E dl \in DeleteDeadlineInputs :
          create_task(1, "u_owner", NULL, dl) /\ BoundedDelete' /\ Sequential
    \/ \E s \in TaskInputsAll, t \in TaskInputsAll :
          create_dependency(s, t, "u_owner", AllOk) /\ BoundedDelete' /\ Sequential
    \/ \E d \in deps, a \in DeleteActionInputs :
          add_dependency_action(d, a.code, "u_owner", a.target_user, a.target_status,
                                a.delay, 0) /\ BoundedDelete' /\ Sequential
    \/ \E t \in TaskInputsAll :
          change_task_status(t, "completed", "u_owner", AllOk)
             /\ BoundedDelete' /\ Sequential
    \/ \E t \in TaskInputsAll :
          delete_task(t, "u_owner") /\ BoundedDelete' /\ Sequential

SpecDelete == Init /\ [][NextDelete]_vars

\* C26: in every state both endpoints of every dependency are existing tasks,
\* every dependency action belongs to an existing dependency, and every
\* scheduled action belongs to an existing task and names no action that is
\* gone; so nothing refers to a task after it was deleted.
C26_NothingRefersToDeletedTask ==
    /\ \A d \in deps : d.source \in TaskIds /\ d.target \in TaskIds
    /\ \A a \in actions : a.dependency \in {d.id : d \in deps}
    /\ \A r \in scheduled :
          /\ r.task \in TaskIds
          /\ r.dependency_action # NullId => r.dependency_action \in {a.id : a \in actions}

\* C26 witness: a task was deleted that had an edge with an action and a
\* reminder of its own; the edge and the action went with it, and the delayed
\* row of the other task stays without its action.
C26_Witness ==
    /\ ret.op = "delete_task"
    /\ ret.res = "ok"
    /\ ret.args[1] \notin TaskIds
    /\ nextDepId > 1 /\ deps = {}
    /\ nextActionId > 1 /\ actions = {}
    /\ nextSchedId > 2
    /\ \E r \in scheduled :
          r.action_type = "delayed_notification" /\ r.dependency_action = NullId

\* ------------------------------------------------------------- core/graph.py
\* A Python int has no width. A number is kept as its sign and the bytes of
\* its magnitude, least significant first, without leading zero bytes; kind
\* tells an int from a float (of integral value) and from any other object.
Trim(bytes) ==
    LET used == {i \in 1..Len(bytes) : bytes[i] # 0} IN
    IF used = {} THEN <<>>
    ELSE SubSeq(bytes, 1, CHOOSE i \in used : \A j \in used : j <= i)

RECURSIVE Bytes(_)
Bytes(n) == IF n = 0 THEN <<>> ELSE <<n % 256>> \o Bytes(n \div 256)

IntValue(n) == [kind |-> "int", neg |-> n < 0, mag |-> Bytes(IF n < 0 THEN -n ELSE n)]
BigValue(mag) == [kind |-> "int", neg |-> FALSE, mag |-> mag]
FloatValue(n) == [kind |-> "float", neg |-> n < 0, mag |-> Bytes(IF n < 0 THEN -n ELSE n)]
StrValue == [kind |-> "str", neg |-> FALSE, mag |-> <<>>]

\* 2^(8*size) - 1, 2^(8*size), 2^(8*size - 1) - 1 and 2^(8*size - 1).
Ones(size) == [i \in 1..size |-> 255]
Top(size) == [i \in 1..size |-> 0] \o <<1>>
HalfOnes(size) == [i \in 1..size |-> IF i = size THEN 127 ELSE 255]
Half(size) == [i \in 1..size |-> IF i = size THEN 128 ELSE 0]

GreaterMag(a, b) ==
    \/ Len(a) > Len(b)
    \/ /\ Len(a) = Len(b)
       /\ \E i \in 1..Len(a) : a[i] > b[i] /\ \A j \in (i + 1)..Len(a) : a[j] = b[j]

\* mag + 1 and mag - 1 (mag > 0).
Inc(mag) ==
    LET low == {i \in 1..Len(mag) : mag[i] < 255} IN
    IF low = {} THEN [i \in 1..Len(mag) |-> 0] \o <<1>>
    ELSE LET k == CHOOSE i \in low : \A j \in low : i <= j IN
         [i \in 1..Len(mag) |-> IF i < k THEN 0 ELSE IF i = k THEN mag[i] + 1 ELSE mag[i]]

Dec(mag) ==
    LET pos == {i \in 1..Len(mag) : mag[i] > 0}
        k == CHOOSE i \in pos : \A j \in pos : i <= j
    IN Trim([i \in 1..Len(mag) |-> IF i < k THEN 255 ELSE IF i = k THEN mag[i] - 1 ELSE mag[i]])

\* Field._format_map
Dtypes == {"uint8", "int8", "uint16", "int16", "uint32", "int32", "uint64", "int64"}

FieldSize(dtype) ==
    CASE dtype \in {"uint8", "int8"} -> 1
      [] dtype \in {"uint16", "int16"} -> 2
      [] dtype \in {"uint32", "int32"} -> 4
      [] OTHER -> 8

Signed(dtype) == dtype \in {"int8", "int16", "int32", "int64"}

Field(name, dtype) == [name |-> name, dtype |-> dtype]

\* EdgeSchema.__init__: the offset of the i-th field and the record size.
RECURSIVE Offset(_, _)
Offset(schema, i) ==
    IF i = 1 THEN 0 ELSE Offset(schema, i - 1) + FieldSize(schema[i - 1].dtype)

total_size(schema) == Offset(schema, Len(schema) + 1)

field_names(schema) == {schema[i].name : i \in 1..Len(schema)}

FieldIndex(schema, name) == CHOOSE i \in 1..Len(schema) : schema[i].name = name

get_field_dtype(schema, field_name) ==
    IF field_name \in field_names(schema)
    THEN schema[FieldIndex(schema, field_name)].dtype
    ELSE "uint16"

\* The dtypes whose name contains the given text ('int8' in dtype).
Containing(text) ==
    CASE text = "int8" -> {"int8", "uint8"}
      [] text = "int16" -> {"int16", "uint16"}
      [] text = "int32" -> {"int32", "uint32"}
      [] OTHER -> {text}

get_max_value(schema, field_name) ==
    LET dtype == get_field_dtype(schema, field_name) IN
    IF dtype \in Containing("uint8") THEN Ones(1)
    ELSE IF dtype \in Containing("uint16") THEN Ones(2)
    ELSE IF dtype \in Containing("uint32") THEN Ones(4)
    ELSE IF dtype \in Containing("int8") THEN HalfOnes(1)
    ELSE IF dtype \in Containing("int16") THEN HalfOnes(2)
    ELSE IF dtype \in Containing("int32") THEN HalfOnes(4)
    ELSE Ones(2)

\* struct: a value can be packed in the format of the dtype when it is an int
\* within the range of the format.
InFormat(dtype, value) ==
    /\ value.kind = "int"
    /\ IF Signed(dtype)
       THEN IF value.neg
            THEN ~GreaterMag(value.mag, Half(FieldSize(dtype)))
            ELSE ~GreaterMag(value.mag, HalfOnes(FieldSize(dtype)))
       ELSE ~value.neg /\ Len(value.mag) <= FieldSize(dtype)

Pad(mag, size) == [i \in 1..size |-> IF i <= Len(mag) THEN mag[i] ELSE 0]

Invert(bytes) == [i \in 1..Len(bytes) |-> 255 - bytes[i]]

\* struct.pack('<' + fmt, value): little-endian, two's complement.
PackField(dtype, value) ==
    IF value.neg
    THEN Invert(Pad(Dec(value.mag), FieldSize(dtype)))
    ELSE Pad(value.mag, FieldSize(dtype))

\* struct.unpack('<' + fmt, bytes)
UnpackField(dtype, bytes) ==
    IF Signed(dtype) /\ bytes[Len(bytes)] >= 128
    THEN [kind |-> "int", neg |-> TRUE, mag |-> Inc(Trim(Invert(bytes)))]
    ELSE [kind |-> "int", neg |-> FALSE, mag |-> Trim(bytes)]

\* EdgeSchema.pack_into(buffer, offset, **kwargs)
pack_into(schema, buffer, offset, fields) ==
    [i \in 1..Len(buffer) |->
       IF i > offset /\ i <= offset + total_size(schema)
       THEN LET f == CHOOSE k \in 1..Len(schema) :
                        /\ i - offset > Offset(schema, k)
                        /\ i - offset <= Offset(schema, k + 1)
            IN PackField(schema[f].dtype, fields[schema[f].name])[i - offset - Offset(schema, f)]
       ELSE buffer[i]]

\* EdgeSchema.unpack_from(buffer, offset)
unpack_from(schema, buffer, offset) ==
    [name \in field_names(schema) |->
       LET f == FieldIndex(schema, name) IN
       UnpackField(schema[f].dtype,
                   SubSeq(buffer, offset + Offset(schema, f) + 1,
                          offset + Offset(schema, f + 1)))]

\* GraphStorage.__init__
GraphStorage(schema, source_field, target_field) ==
    [schema |-> schema, source_field |-> source_field, target_field |-> target_field,
     buffer |-> <<>>, num_edges |-> 0]

Returned(value) == [raised |-> "none", value |-> value]
Raised(error) == [raised |-> error, value |-> 0]

\* GraphStorage.add_edge(**fields)
add_edge(fields) ==
    LET schema == storage.schema
        checked == DOMAIN fields \cap field_names(schema)
        start == storage.num_edges * total_size(schema)
        extended == storage.buffer \o [i \in 1..total_size(schema) |-> 0]
    IN
    IF \E name \in field_names(schema) : name \notin DOMAIN fields
    THEN /\ ret' = [op |-> "add_edge", args |-> fields, res |-> Raised("ValueError")]
         /\ UNCHANGED storage
    ELSE IF \E name \in checked :
               \/ fields[name].kind \notin {"int", "float"}
               \/ fields[name].neg
               \/ GreaterMag(fields[name].mag, get_max_value(schema, name))
    THEN /\ ret' = [op |-> "add_edge", args |-> fields, res |-> Raised("ValueError")]
         /\ UNCHANGED storage
    ELSE IF \E name \in field_names(schema) :
               ~InFormat(get_field_dtype(schema, name), fields[name])
    THEN /\ storage' = [storage EXCEPT !.buffer = extended]
         /\ ret' = [op |-> "add_edge", args |-> fields, res |-> Raised("struct.error")]
    ELSE /\ storage' = [storage EXCEPT !.buffer = pack_into(schema, extended, start, fields),
                                       !.num_edges = @ + 1]
         /\ ret' = [op |-> "add_edge", args |-> fields, res |-> Returned(storage.num_edges)]

\* GraphStorage.get_edge(idx), for an index within range
get_edge(st, idx) == unpack_from(st.schema, st.buffer, idx * total_size(st.schema))

\* The engine's state next to a GraphStorage: nothing of it changes.
EngineUnchanged ==
    UNCHANGED <<members, tasks, deps, actions, scheduled, events, now, nextTaskId,
                nextDepId, nextActionId, nextSchedId, everFinal, statusChanges,
                calls, workers, dispatches, executedWrites, org, account>>

\* ---------------------------------------------------------------------------
\* A GraphStorage of any source dtype filled by add_edge calls with values at
\* and around the bounds of every dtype, with floats, strings, missing and
\* extra fields.
Schemas ==
    {<<Field("source", d), Field("target", "uint8")>> : d \in Dtypes}

SourceInputs ==
    {IntValue(-129), IntValue(-128), IntValue(-1), IntValue(0), IntValue(127), IntValue(128),
     IntValue(255), IntValue(256), IntValue(32767), IntValue(32768), IntValue(65535),
     IntValue(65536), BigValue(HalfOnes(4)), BigValue(Half(4)), BigValue(Ones(4)),
     BigValue(Top(4)), BigValue(HalfOnes(8)), BigValue(Half(8)), BigValue(Ones(8)),
     BigValue(Top(8)), FloatValue(1), StrValue}

EdgeInputs ==
    {[name \in {"source", "target"} |-> IF name = "source" THEN v ELSE IntValue(7)]
        : v \in SourceInputs}
    \cup {[name \in {"source"} |-> IntValue(0)],
          [name \in {"target"} |-> IntValue(7)],
          [name \in {"source", "target", "weight"} |->
              IF name = "weight" THEN StrValue ELSE IntValue(1)]}

InitStorage ==
    /\ InitEngine
    /\ storage \in {GraphStorage(schema, "source", "target") : schema \in Schemas}

BoundedStorage ==
    /\ storage.num_edges <= MaxEdges
    /\ Len(storage.buffer) <= MaxEdges * total_size(storage.schema)

NextStorage ==
    \E fields \in EdgeInputs : add_edge(fields) /\ BoundedStorage' /\ EngineUnchanged

SpecStorage == InitStorage /\ [][NextStorage]_vars

\* The bounds of a dtype: 0 .. 2^w - 1 when unsigned, -2^(w-1) .. 2^(w-1) - 1
\* when signed, w the width in bits.
WithinDtype(dtype, value) ==
    LET size == FieldSize(dtype) IN
    IF Signed(dtype)
    THEN IF value.neg THEN ~GreaterMag(value.mag, Half(size))
         ELSE ~GreaterMag(value.mag, HalfOnes(size))
    ELSE ~value.neg /\ ~GreaterMag(value.mag, Ones(size))

\* C27: after every add_edge call the length of the buffer is num_edges times
\* the record size, and a call that raised left the buffer and num_edges as
\* they were.
C27_BufferMatchesEdges ==
    [][/\ Len(storage'.buffer) = storage'.num_edges * total_size(storage'.schema)
       /\ ret'.res.raised # "none" => storage' = storage]_vars

\* C28: an add_edge call whose record has every field of the schema, each an
\* integer within the bounds of its dtype, returns the previous num_edges,
\* get_edge of that index gives the record back and the earlier edges read
\* as before; a call with an integer outside the bounds of its dtype raises.
C28_RoundTrip ==
    [][LET x == ret'.args
           schema == storage.schema
           names == field_names(schema)
           complete == names \subseteq DOMAIN x
           integers == complete /\ \A name \in names : x[name].kind = "int"
           within(name) == WithinDtype(get_field_dtype(schema, name), x[name])
       IN /\ (integers /\ \A name \in names : within(name))
             => /\ ret'.res = Returned(storage.num_edges)
                /\ storage'.num_edges = storage.num_edges + 1
                /\ get_edge(storage', storage.num_edges) = [name \in names |-> x[name]]
                /\ \A i \in 0..(storage.num_edges - 1) :
                      get_edge(storage', i) = get_edge(storage, i)
          /\ (integers /\ \E name \in names : ~within(name))
             => ret'.res.raised # "none"]_vars

\* ------------------------------------------------ core/graph.py: algorithms
\* The value of a small number.
RECURSIVE MagValue(_)
MagValue(mag) == IF mag = <<>> THEN 0 ELSE Head(mag) + 256 * MagValue(Tail(mag))

AsInt(value) == IF value.neg THEN -MagValue(value.mag) ELSE MagValue(value.mag)

\* The edges as the loops over range(_num_edges) read them from the buffer.
EdgeList(st) ==
    [i \in 1..st.num_edges |->
       LET src_ofs == Offset(st.schema, FieldIndex(st.schema, st.source_field))
           tgt_ofs == Offset(st.schema, FieldIndex(st.schema, st.target_field))
           src_field == st.schema[FieldIndex(st.schema, st.source_field)]
           tgt_field == st.schema[FieldIndex(st.schema, st.target_field)]
           offset == (i - 1) * total_size(st.schema)
       IN [src |-> AsInt(UnpackField(src_field.dtype,
                                     SubSeq(st.buffer, offset + src_ofs + 1,
                                            offset + src_ofs + FieldSize(src_field.dtype)))),
           tgt |-> AsInt(UnpackField(tgt_field.dtype,
                                     SubSeq(st.buffer, offset + tgt_ofs + 1,
                                            offset + tgt_ofs + FieldSize(tgt_field.dtype)))),
           dur |-> IF "duration" \in field_names(st.schema)
                   THEN LET dur_field == st.schema[FieldIndex(st.schema, "duration")]
                            dur_ofs == Offset(st.schema, FieldIndex(st.schema, "duration"))
                        IN AsInt(UnpackField(dur_field.dtype,
                                             SubSeq(st.buffer, offset + dur_ofs + 1,
                                                    offset + dur_ofs + FieldSize(dur_field.dtype))))
                   ELSE 0,
           idx |-> i - 1]]

\* GraphStorage.get_vertices
get_vertices(st) ==
    LET edges == EdgeList(st) IN
    {edges[i].src : i \in 1..st.num_edges} \cup {edges[i].tgt : i \in 1..st.num_edges}

\* GraphStorage.adjacency_lists_fast: out[src] and inn[tgt], lists of
\* (other vertex, edge index, duration) in edge order; no 'duration' field
\* in the schema gives duration 0.
adjacency_lists_fast(st) ==
    LET edges == EdgeList(st)
        vertices == {edges[i].src : i \in 1..st.num_edges}
                       \cup {edges[i].tgt : i \in 1..st.num_edges}
        OutEdges(v) ==
            LET sel == SelectSeq(edges, LAMBDA e : e.src = v) IN
            [k \in 1..Len(sel) |-> <<sel[k].tgt, sel[k].idx, sel[k].dur>>]
        InEdges(v) ==
            LET sel == SelectSeq(edges, LAMBDA e : e.tgt = v) IN
            [k \in 1..Len(sel) |-> <<sel[k].src, sel[k].idx, sel[k].dur>>]
    IN [out |-> [v \in vertices |-> OutEdges(v)], inn |-> [v \in vertices |-> InEdges(v)]]

\* The orders in which a loop may meet the elements of a Python set.
VertexOrders(st) == Orderings(get_vertices(st))

\* topological_sort: the inner loop over out_edges[v] ...
RECURSIVE Relax(_, _, _, _)
Relax(outs, i, q, indegree) ==
    IF i > Len(outs) THEN [q |-> q, indegree |-> indegree]
    ELSE LET tgt == outs[i][1]
             left == indegree[tgt] - 1
         IN Relax(outs, i + 1, IF left = 0 THEN Append(q, tgt) ELSE q,
                  [indegree EXCEPT ![tgt] = left])

\* ... and the loop over the queue.
RECURSIVE Kahn(_, _, _, _)
Kahn(out, q, order, indegree) ==
    IF q = <<>> THEN order
    ELSE LET v == Head(q)
             r == Relax(out[v], 1, Tail(q), indegree)
         IN Kahn(out, r.q, Append(order, v), r.indegree)

\* topological_sort that returns what it emitted, cycle or not.
topological_sort_unchecked(st, vertices) ==
    LET adj == adjacency_lists_fast(st)
        indegree == [v \in DOMAIN adj.inn |-> Len(adj.inn[v])]
    IN [raised |-> "none",
        value |-> Kahn(adj.out, SelectSeq(vertices, LAMBDA v : indegree[v] = 0), <<>>,
                       indegree)]

\* GraphAlgorithms.topological_sort(storage); vertices is the vertex set in
\* the order the loops meet it.
topological_sort(st, vertices) ==
    LET adj == adjacency_lists_fast(st)
        indegree == [v \in DOMAIN adj.inn |-> Len(adj.inn[v])]
        order == Kahn(adj.out, SelectSeq(vertices, LAMBDA v : indegree[v] = 0), <<>>,
                      indegree)
    IN IF Len(order) # Len(vertices)
       THEN [raised |-> "ValueError", value |-> <<>>]
       ELSE [raised |-> "none", value |-> order]

\* GraphAlgorithms.is_dag(storage)
is_dag(st, vertices) == topological_sort(st, vertices).raised = "none"

\* GraphAlgorithms._has_cycle_iterative(out_edges, vertices). w is the entry
\* next(it) gives, the whole (vertex, edge index, duration); the keys of
\* state are vertices.
InState(w, state) == \E k \in DOMAIN state : <<k>> = w

KeyOf(w, state) == CHOOSE k \in DOMAIN state : <<k>> = w

RECURSIVE IterativeWhile(_, _, _)
IterativeWhile(out, state, stack) ==
    IF stack = <<>> THEN [found |-> FALSE, state |-> state]
    ELSE LET top == stack[Len(stack)]
             advanced == [stack EXCEPT ![Len(stack)].pos = @ + 1]
         IN IF top.pos > Len(out[top.v])
            THEN IterativeWhile(out, [state EXCEPT ![top.v] = 2],
                                SubSeq(stack, 1, Len(stack) - 1))
            ELSE LET w == out[top.v][top.pos] IN
                 IF ~InState(w, state) THEN IterativeWhile(out, state, advanced)
                 ELSE IF state[KeyOf(w, state)] = 1 THEN [found |-> TRUE, state |-> state]
                 ELSE IF state[KeyOf(w, state)] = 0
                 THEN IterativeWhile(out, [state EXCEPT ![KeyOf(w, state)] = 1],
                                     Append(advanced, [v |-> KeyOf(w, state), pos |-> 1]))
                 ELSE IterativeWhile(out, state, advanced)

RECURSIVE IterativeFor(_, _, _, _)
IterativeFor(out, vertices, i, state) ==
    IF i > Len(vertices) THEN FALSE
    ELSE IF state[vertices[i]] # 0 THEN IterativeFor(out, vertices, i + 1, state)
    ELSE LET r == IterativeWhile(out, [state EXCEPT ![vertices[i]] = 1],
                                 <<[v |-> vertices[i], pos |-> 1]>>)
         IN IF r.found THEN TRUE ELSE IterativeFor(out, vertices, i + 1, r.state)

has_cycle_iterative(out, vertices) ==
    IterativeFor(out, vertices, 1, [v \in DOMAIN out |-> 0])

\* has_cycle_ultra_fast: its dfs(v), at the given depth of nested calls, on the
\* locals S = state, cycle_count, has_cycle; error when the interpreter
\* refused a call (RecursionError).
RECURSIVE has_cycle_dfs(_, _, _, _)
RECURSIVE has_cycle_dfs_loop(_, _, _, _, _)
has_cycle_dfs(out, v, depth, S) ==
    IF depth > RecursionLimit THEN [S EXCEPT !.error = TRUE]
    ELSE has_cycle_dfs_loop(out, v, 1, depth, [S EXCEPT !.state[v] = 1])

has_cycle_dfs_loop(out, v, i, depth, S) ==
    IF i > Len(out[v]) THEN [S EXCEPT !.state[v] = 2]
    ELSE LET w == out[v][i][1] IN
         IF w \notin DOMAIN S.state THEN has_cycle_dfs_loop(out, v, i + 1, depth, S)
         ELSE IF S.state[w] = 1
         THEN LET S1 == [S EXCEPT !.cycle_count = @ + 1, !.has_cycle = TRUE] IN
              IF S1.cycle_count > CycleCountLimit THEN S1
              ELSE has_cycle_dfs_loop(out, v, i + 1, depth, S1)
         ELSE IF S.state[w] = 0
         THEN LET S1 == has_cycle_dfs(out, w, depth + 1, S) IN
              IF S1.error THEN S1
              ELSE IF S1.has_cycle /\ S1.cycle_count > CycleCountLimit THEN S1
              ELSE has_cycle_dfs_loop(out, v, i + 1, depth, S1)
         ELSE has_cycle_dfs_loop(out, v, i + 1, depth, S)

RECURSIVE UltraFastFor(_, _, _, _)
UltraFastFor(out, vertices, i, S) ==
    IF i > Len(vertices) THEN S
    ELSE IF S.state[vertices[i]] # 0 THEN UltraFastFor(out, vertices, i + 1, S)
    ELSE LET S1 == has_cycle_dfs(out, vertices[i], 1, S) IN
         IF S1.error THEN S1
         ELSE IF S1.has_cycle /\ S1.cycle_count > CycleCountLimit THEN S1
         ELSE UltraFastFor(out, vertices, i + 1, S1)

\* GraphAlgorithms.has_cycle_ultra_fast(storage): (has_cycle, cycle_count)
has_cycle_ultra_fast(st, vertices) ==
    LET out == adjacency_lists_fast(st).out
        S == UltraFastFor(out, vertices, 1,
                          [state |-> [v \in DOMAIN out |-> 0], cycle_count |-> 0,
                           has_cycle |-> FALSE, error |-> FALSE])
    IN IF S.error THEN <<has_cycle_iterative(out, vertices), S.cycle_count>>
       ELSE <<S.has_cycle, S.cycle_count>>

\* ---------------------------------------------------------------------------
\* The algorithms on a GraphStorage of a few vertices: edges are added (any
\* edge between two vertices, a loop on the last one), and the sort, is_dag
\* and the cycle detection are called on what is stored.
VertexInputs == 0..MaxVertex

AlgoEdgeInputs ==
    {[name \in {"source", "target"} |->
        IF name = "source" THEN IntValue(e[1]) ELSE IntValue(e[2])]
       : e \in {p \in VertexInputs \X VertexInputs : p[1] # p[2] \/ p[1] = MaxVertex}}

InitAlgo ==
    /\ InitEngine
    /\ storage = GraphStorage(<<Field("source", "uint8"), Field("target", "uint8")>>,
                              "source", "target")

BoundedAlgo == storage.num_edges <= MaxEdgesAlgo

Call(op, args, res) ==
    /\ ret' = [op |-> op, args |-> args, res |-> res]
    /\ UNCHANGED storage

NextAlgo ==
    \/ \E fields \in AlgoEdgeInputs : add_edge(fields) /\ BoundedAlgo' /\ EngineUnchanged
    \/ \E vertices \in VertexOrders(storage) :
          Call("topological_sort", vertices, topological_sort(storage, vertices))
             /\ EngineUnchanged
    \/ \E vertices \in VertexOrders(storage) :
          Call("is_dag", vertices, is_dag(storage, vertices)) /\ EngineUnchanged
    \/ \E vertices \in VertexOrders(storage) :
          Call("has_cycle_ultra_fast", vertices, has_cycle_ultra_fast(storage, vertices))
             /\ EngineUnchanged

SpecAlgo == InitAlgo /\ [][NextAlgo]_vars

\* The pairs (source, target) of the stored edges, and whether some vertex
\* reaches itself along one or more of them.
EdgePairs(st) == {<<EdgeList(st)[i].src, EdgeList(st)[i].tgt>> : i \in 1..st.num_edges}

Compose(R) == R \cup {<<pq[1][1], pq[2][2]>> : pq \in {x \in R \X R : x[1][2] = x[2][1]}}

RECURSIVE Closure(_)
Closure(R) == IF Compose(R) = R THEN R ELSE Closure(Compose(R))

HasDirectedCycle(st) == \E p \in Closure(EdgePairs(st)) : p[1] = p[2]

\* C29: topological_sort raises the cycle error when the stored edges contain
\* a directed cycle, and otherwise returns a sequence that holds every vertex
\* exactly once with the source of every edge before its target ([] for no
\* edges); is_dag is true exactly when the sort succeeds.
C29_TopologicalSort ==
    /\ ret.op = "topological_sort"
       => IF HasDirectedCycle(storage)
          THEN ret.res.raised = "ValueError"
          ELSE /\ ret.res.raised = "none"
               /\ Len(ret.res.value) = Cardinality(get_vertices(storage))
               /\ {ret.res.value[i] : i \in 1..Len(ret.res.value)} = get_vertices(storage)
               /\ \A p \in EdgePairs(storage) :
                     \E i, j \in 1..Len(ret.res.value) :
                        i < j /\ ret.res.value[i] = p[1] /\ ret.res.value[j] = p[2]
               /\ storage.num_edges = 0 => ret.res.value = <<>>
    /\ ret.op = "is_dag"
       => /\ ret.res = ~HasDirectedCycle(storage)
          /\ ret.res = (topological_sort(storage, ret.args).raised = "none")

\* C29 witness: the sort returned the three vertices of an acyclic graph that
\* has two parallel edges.
C29_Witness ==
    /\ ret.op = "topological_sort"
    /\ ret.res.raised = "none"
    /\ Len(ret.res.value) = 3
    /\ storage.num_edges = 3
    /\ Cardinality(EdgePairs(storage)) = 2

\* C30: has_cycle_ultra_fast returns has_cycle true exactly when the stored
\* edges contain a directed cycle, self-loops included, that is exactly when
\* is_dag is false, and a count above 0 exactly when has_cycle is true.
C30_HasCycle ==
    ret.op = "has_cycle_ultra_fast"
       => /\ ret.res[1] = HasDirectedCycle(storage)
          /\ ret.res[1] = ~is_dag(storage, ret.args)
          /\ (ret.res[2] > 0) = ret.res[1]

\* ---------------------------------------------------------------------------
\* The two cycle detections side by side on small graphs.
BoundedIterative == storage.num_edges <= MaxEdges

NextIterative ==
    \/ \E fields \in AlgoEdgeInputs :
          add_edge(fields) /\ BoundedIterative' /\ EngineUnchanged
    \/ \E vertices \in VertexOrders(storage) :
          Call("_has_cycle_iterative", vertices,
               has_cycle_iterative(adjacency_lists_fast(storage).out, vertices))
             /\ EngineUnchanged
    \/ \E vertices \in VertexOrders(storage) :
          Call("has_cycle_ultra_fast", vertices, has_cycle_ultra_fast(storage, vertices))
             /\ EngineUnchanged

SpecIterative == InitAlgo /\ [][NextIterative]_vars

\* C31: _has_cycle_iterative returns, for the adjacency of the stored edges,
\* the has_cycle verdict of the recursive three-colour search, which is
\* whether the edges contain a directed cycle.
C31_IterativeAgrees ==
    ret.op = "_has_cycle_iterative"
       => /\ ret.res = has_cycle_ultra_fast(storage, ret.args)[1]
          /\ ret.res = HasDirectedCycle(storage)

\* shortest_path without a weight field: the loop over the deque of
\* (vertex, distance, path).
RECURSIVE BreadthFirst(_, _, _, _)
RECURSIVE BreadthFirstVisit(_, _, _, _, _)
BreadthFirstVisit(outs, i, entry, visited, q) ==
    IF i > Len(outs) THEN [visited |-> visited, q |-> q]
    ELSE LET tgt == outs[i][1] IN
         IF tgt \notin visited
         THEN BreadthFirstVisit(outs, i + 1, entry, visited \cup {tgt},
                                Append(q, [v |-> tgt, d |-> entry.d + 1,
                                           path |-> Append(entry.path, tgt)]))
         ELSE BreadthFirstVisit(outs, i + 1, entry, visited, q)

BreadthFirst(out, target, visited, q) ==
    IF q = <<>> THEN Returned(<<NoDistance, <<>>>>)
    ELSE LET entry == Head(q) IN
         IF entry.v = target THEN Returned(<<entry.d, entry.path>>)
         ELSE LET r == BreadthFirstVisit(IF entry.v \in DOMAIN out THEN out[entry.v] ELSE <<>>,
                                         1, entry, visited, Tail(q))
              IN BreadthFirst(out, target, r.visited, r.q)

\* nd < dist[tgt], dist[tgt] a number or float('inf')
LessThan(nd, d) == d = Infinity \/ nd < d

\* heapq.heappop: the least (distance, vertex) pair
HeapMin(pq) ==
    CHOOSE e \in pq : \A f \in pq : e[1] < f[1] \/ (e[1] = f[1] /\ e[2] <= f[2])

\* The loop over the heap, one step of which relaxes the edges out of v.
RECURSIVE DijkstraRelax(_, _, _, _, _)
DijkstraRelax(outs, i, d, v, L) ==
    IF i > Len(outs) THEN L
    ELSE LET tgt == outs[i][1]
             nd == d + outs[i][3]
         IN IF LessThan(nd, L.dist[tgt])
            THEN DijkstraRelax(outs, i + 1, d, v,
                               [dist |-> [L.dist EXCEPT ![tgt] = nd],
                                prev |-> [L.prev EXCEPT ![tgt] = v],
                                pq |-> L.pq \cup {<<nd, tgt>>}])
            ELSE DijkstraRelax(outs, i + 1, d, v, L)

RECURSIVE Dijkstra(_, _, _)
Dijkstra(out, target, L) ==
    IF L.pq = {} THEN L
    ELSE LET e == HeapMin(L.pq)
             popped == [L EXCEPT !.pq = @ \ {e}]
         IN IF e[1] > L.dist[e[2]] THEN Dijkstra(out, target, popped)
            ELSE IF e[2] = target THEN popped
            ELSE Dijkstra(out, target,
                          DijkstraRelax(IF e[2] \in DOMAIN out THEN out[e[2]] ELSE <<>>,
                                        1, e[1], e[2], popped))

\* The walk back along prev; prev[cur] of a key that prev lacks raises.
RECURSIVE WalkBack(_, _, _)
WalkBack(prev, cur, path) ==
    IF cur = NoVertex THEN Returned(path)
    ELSE IF cur \notin DOMAIN prev THEN [raised |-> "KeyError", value |-> <<>>]
    ELSE WalkBack(prev, prev[cur], <<cur>> \o path)

\* The branch taken when a weight field is named.
shortest_path_weighted(st, source, target) ==
    LET out == adjacency_lists_fast(st).out
        vertices == DOMAIN out
        L == Dijkstra(out, target,
                      [dist |-> [v \in vertices \cup {source} |->
                                   IF v = source THEN 0 ELSE Infinity],
                       prev |-> [v \in vertices |-> NoVertex],
                       pq |-> {<<0, source>>}])
    IN IF target \notin DOMAIN L.dist THEN [raised |-> "KeyError", value |-> <<>>]
       ELSE IF L.dist[target] = Infinity THEN Returned(<<NoDistance, <<>>>>)
       ELSE LET path == WalkBack(L.prev, target, <<>>) IN
            IF path.raised # "none" THEN path
            ELSE Returned(<<L.dist[target], path.value>>)

\* GraphAlgorithms.shortest_path(storage, source, target, weight_field): the
\* weight of an edge is the third element of its adjacency entry, the value
\* of the field 'duration'.
shortest_path(st, source, target, weight_field) ==
    IF weight_field = NULL
    THEN BreadthFirst(adjacency_lists_fast(st).out, target, {source},
                      <<[v |-> source, d |-> 0, path |-> <<source>>]>>)
    ELSE shortest_path_weighted(st, source, target)

\* ---------------------------------------------------------------------------
\* shortest_path on a GraphStorage whose edges carry a third field, named
\* 'duration' or 'weight', between vertices of the graph and one outside.
PathSchemas ==
    {<<Field("source", "uint8"), Field("target", "uint8"), Field(third, "uint8")>>
       : third \in {"duration", "weight"}}

\* (source, target, weight)
PathEdges == {<<0, 1, 1>>, <<1, 2, 1>>, <<0, 2, 3>>, <<0, 2, 1>>, <<2, 0, 1>>}

PathEdgeInputs(schema) ==
    {[name \in field_names(schema) |->
        IF name = "source" THEN IntValue(e[1])
        ELSE IF name = "target" THEN IntValue(e[2]) ELSE IntValue(e[3])]
       : e \in PathEdges}

InitPath ==
    /\ InitEngine
    /\ storage \in {GraphStorage(schema, "source", "target") : schema \in PathSchemas}

NextPath ==
    \/ \E fields \in PathEdgeInputs(storage.schema) :
          add_edge(fields) /\ BoundedAlgo' /\ EngineUnchanged
    \/ \E source \in {0, 2, MaxVertex + 1}, target \in {0, 2, MaxVertex + 1},
          weight_field \in {NULL, storage.schema[3].name} :
          Call("shortest_path", <<source, target, weight_field>>,
               shortest_path(storage, source, target, weight_field)) /\ EngineUnchanged

SpecPath == InitPath /\ [][NextPath]_vars

\* The directed paths from s to t as sequences of edge numbers, the vertices
\* along one, and its length in edges or in total weight.
PathsBetween(st, s, t) ==
    LET edges == EdgeList(st) IN
    {p \in UNION {[1..n -> 1..st.num_edges] : n \in 1..st.num_edges} :
        /\ edges[p[1]].src = s
        /\ edges[p[Len(p)]].tgt = t
        /\ \A i \in 1..(Len(p) - 1) : edges[p[i]].tgt = edges[p[i + 1]].src}

VerticesAlong(st, p) == <<EdgeList(st)[p[1]].src>> \o [i \in 1..Len(p) |-> EdgeList(st)[p[i]].tgt]

RECURSIVE PathCost(_, _, _)
PathCost(st, p, weight_field) ==
    IF p = <<>> THEN 0
    ELSE (IF weight_field = NULL THEN 1
          ELSE AsInt(get_edge(st, Head(p) - 1)[weight_field]))
         + PathCost(st, Tail(p), weight_field)

\* C32: shortest_path(s, t) returns (0, [v]) for s = t = v, (None, []) when
\* no directed path leads from s to t, a vertex outside the graph included,
\* and otherwise the least number of edges, or the least total of the weight
\* field when one is named, together with a path from s to t that has it.
C32_ShortestPath ==
    ret.op = "shortest_path"
       => LET s == ret.args[1]
              t == ret.args[2]
              weight_field == ret.args[3]
              paths == PathsBetween(storage, s, t)
          IN /\ ret.res.raised = "none"
             /\ IF s = t THEN ret.res.value = <<0, <<s>>>>
                ELSE IF paths = {} THEN ret.res.value = <<NoDistance, <<>>>>
                ELSE /\ \A p \in paths : ret.res.value[1] <= PathCost(storage, p, weight_field)
                     /\ \E p \in paths :
                           /\ PathCost(storage, p, weight_field) = ret.res.value[1]
                           /\ VerticesAlong(storage, p) = ret.res.value[2]

\* ---------------------------------------------------------------------------
\* Deactivation: a delayed action is scheduled by a completion, switched off
\* before it is due, and the tick runs when it is due.
BoundedDeactivate ==
    Within(MaxTasksAll, MaxDepsAll, MaxActions, MaxSched, MaxEventsEngine,
           MaxStatusChangesBatch, MaxTime)

NextDeactivate ==
    \/ create_task(1, "u_owner", NULL, NullTime) /\ BoundedDeactivate' /\ Sequential
    \/ \E s \in TaskInputsAll, t \in TaskInputsAll :
          create_dependency(s, t, "u_owner", AllOk) /\ BoundedDeactivate' /\ Sequential
    \/ \E d \in deps, a \in DelayedActionInputs :
          add_dependency_action(d, a.code, "u_owner", a.target_user, a.target_status,
                                a.delay, 0) /\ BoundedDeactivate' /\ Sequential
    \/ \E a \in ActionIds :
          deactivate_action(a) /\ BoundedDeactivate' /\ Sequential
    \/ \E t \in TaskInputsAll :
          change_task_status(t, "completed", "u_owner", AllOk)
             /\ BoundedDeactivate' /\ Sequential
    \/ process_scheduled_actions(AllOk, [i \in SchedIds |-> "ok"])
          /\ BoundedDeactivate' /\ Sequential
    \/ AdvanceTime /\ BoundedDeactivate' /\ Sequential

SpecDeactivate == Init /\ [][NextDeactivate]_vars

\* C38: a tick that takes a due delayed_notification row whose
\* DependencyAction is not active at that time sends no notification for the
\* action and changes no task.
C38_InactiveNotDispatched ==
    [][(ret'.op = "process_scheduled_actions" /\ scheduled' # scheduled)
          => \A r \in scheduled :
                (/\ r.status = "pending"
                 /\ r.scheduled_for <= now
                 /\ r.action_type = "delayed_notification"
                 /\ r.dependency_action # NullId
                 /\ ~ActionById(r.dependency_action).is_active)
                => /\ \A i \in 1..Len(ret'.notified) :
                         ret'.notified[i].action # r.dependency_action
                   /\ tasks' = tasks]_vars

\* C37: for every task the new_value of its latest status_changed event is
\* the task's status, a task without such an event is in 'todo', and every
\* status_changed event has an old_value different from its new_value.
C37_LogAgreesWithStatus ==
    /\ \A t \in TaskIds :
          LET changes == {i \in 1..Len(events) :
                            events[i].task = t /\ events[i].event_type = "status_changed"}
          IN IF changes = {} THEN tasks[t].status = "todo"
             ELSE LET last == CHOOSE i \in changes : \A j \in changes : j <= i
                  IN events[last].new_value = tasks[t].status
    /\ \A i \in 1..Len(events) :
          events[i].event_type = "status_changed"
             => events[i].old_value # events[i].new_value

\* ----------------------------------------------- TeamService, ProjectService
\* The membership tables of one team and one project of that team.
MaxTeams == 1
MaxTeamProjects == 1
MaxInvitations == 1

\* timedelta(days=7) on a clock that counts minutes.
InvitationLifetime == 10080

\* TeamMemberRole.get_default_roles: the flags the services read.
TeamRoleFlags(role) ==
    CASE role = "owner" ->
           [can_manage_team |-> TRUE, can_manage_projects |-> TRUE, can_invite_members |-> TRUE]
      [] role = "admin" ->
           [can_manage_team |-> FALSE, can_manage_projects |-> TRUE, can_invite_members |-> TRUE]
      [] OTHER ->
           [can_manage_team |-> FALSE, can_manage_projects |-> FALSE, can_invite_members |-> FALSE]

TeamRoleNames == {"owner", "admin", "member"}
ProjectRoleNames == {"owner", "manager", "developer", "observer"}

\* A TeamMember or ProjectMember row as create() writes it.
MemberRow(user, role, created_by) ==
    [user |-> user, role |-> role, created_by |-> created_by, is_active |-> TRUE,
     left_at |-> NullTime]

\* The rows of a user, the active ones, and the role of the active row.
RowsOf(rows, user) == {r \in rows : r.user = user}
ActiveRows(rows) == {r \in rows : r.is_active}
RoleOf(rows, user) ==
    LET active == ActiveRows(RowsOf(rows, user)) IN
    IF active = {} THEN NULL ELSE (CHOOSE r \in active : TRUE).role

\* TeamService.get_user_role_in_team, is_member and the can_* tests
get_user_role_in_team(user) == RoleOf(org.team_members, user)
team_is_member(user) == get_user_role_in_team(user) # NULL
can_manage_team(user) == TeamRoleFlags(get_user_role_in_team(user)).can_manage_team
can_manage_projects(user) == TeamRoleFlags(get_user_role_in_team(user)).can_manage_projects
can_invite_members(user) == TeamRoleFlags(get_user_role_in_team(user)).can_invite_members

\* ProjectService.can_manage_members over the ProjectMember rows
project_can_manage_members(user) == RoleOf(org.project_members, user) \in {"owner", "manager"}

\* What a membership call leaves alone.
OrgCall(op, args, res) ==
    /\ ret' = [op |-> op, args |-> args, res |-> res]
    /\ UNCHANGED <<members, tasks, deps, actions, scheduled, events, now, nextTaskId,
                   nextDepId, nextActionId, nextSchedId, everFinal, statusChanges,
                   calls, workers, dispatches, executedWrites, storage, account>>

\* TeamService.create_team(name, owner), the name valid
create_team(owner) ==
    /\ org.teams < MaxTeams
    /\ org' = [org EXCEPT !.teams = @ + 1,
                          !.team_members = {MemberRow(owner, "owner", owner)},
                          !.team_members_count = 1]
    /\ OrgCall("create_team", <<owner>>, "ok")

\* ProjectService.create_project(team, name, created_by), the name valid
create_project(created_by) ==
    /\ org.teams = 1
    /\ org.projects < MaxTeamProjects
    /\ IF ~can_manage_projects(created_by)
       THEN /\ OrgCall("create_project", <<created_by>>, "PermissionError")
            /\ UNCHANGED org
       ELSE /\ org' = [org EXCEPT !.projects = @ + 1,
                                  !.project_members = {MemberRow(created_by, "owner", created_by)},
                                  !.project_members_count = 1]
            /\ OrgCall("create_project", <<created_by>>, "ok")

\* TeamService.add_member(team, user, role_name, created_by)
team_add_member(user, role_name, created_by) ==
    LET args == <<user, role_name, created_by>>
        existing == RowsOf(org.team_members, user)
        row == CHOOSE r \in existing : TRUE
        reactivated ==
            (org.team_members \ existing)
               \cup {[row EXCEPT !.is_active = TRUE, !.left_at = NullTime,
                                 !.role = IF role_name \in TeamRoleNames THEN role_name ELSE @]}
        created == org.team_members \cup {MemberRow(user, role_name, created_by)}
    IN
    /\ org.teams = 1
    /\ IF ~can_manage_team(created_by)
       THEN OrgCall("team_add_member", args, "PermissionError") /\ UNCHANGED org
       ELSE IF existing # {} /\ row.is_active
       THEN OrgCall("team_add_member", args, "ValueError") /\ UNCHANGED org
       ELSE IF existing # {}
       THEN /\ org' = [org EXCEPT !.team_members = reactivated,
                                  !.team_members_count = Cardinality(ActiveRows(reactivated))]
            /\ OrgCall("team_add_member", args, "ok")
       ELSE IF role_name \notin TeamRoleNames
       THEN OrgCall("team_add_member", args, "ValueError") /\ UNCHANGED org
       ELSE /\ org' = [org EXCEPT !.team_members = created,
                                  !.team_members_count = Cardinality(ActiveRows(created))]
            /\ OrgCall("team_add_member", args, "ok")

\* TeamService.remove_member(team, user, removed_by)
team_remove_member(user, removed_by) ==
    LET args == <<user, removed_by>>
        active == ActiveRows(RowsOf(org.team_members, user))
        row == CHOOSE r \in active : TRUE
        left == (org.team_members \ active)
                   \cup {[row EXCEPT !.is_active = FALSE, !.left_at = now]}
    IN
    /\ org.teams = 1
    /\ IF ~can_manage_team(removed_by)
       THEN OrgCall("team_remove_member", args, "PermissionError") /\ UNCHANGED org
       ELSE IF active = {}
       THEN OrgCall("team_remove_member", args, "DoesNotExist") /\ UNCHANGED org
       ELSE IF row.role = "owner"
       THEN OrgCall("team_remove_member", args, "ValueError") /\ UNCHANGED org
       ELSE /\ org' = [org EXCEPT !.team_members = left,
                                  !.team_members_count = Cardinality(ActiveRows(left))]
            /\ OrgCall("team_remove_member", args, "ok")

\* ProjectService.add_member(project, user, role_name, added_by): the new row
\* is inserted under the unique index on (project, user).
project_add_member(user, role_name, added_by) ==
    LET args == <<user, role_name, added_by>>
        created == org.project_members \cup {MemberRow(user, role_name, added_by)}
    IN
    /\ org.projects = 1
    /\ IF ~project_can_manage_members(added_by)
       THEN OrgCall("project_add_member", args, "PermissionError") /\ UNCHANGED org
       ELSE IF ~team_is_member(user)
       THEN OrgCall("project_add_member", args, "ValueError") /\ UNCHANGED org
       ELSE IF ActiveRows(RowsOf(org.project_members, user)) # {}
       THEN OrgCall("project_add_member", args, "ValueError") /\ UNCHANGED org
       ELSE IF role_name \notin ProjectRoleNames
       THEN OrgCall("project_add_member", args, "ValueError") /\ UNCHANGED org
       ELSE IF RowsOf(org.project_members, user) # {}
       THEN OrgCall("project_add_member", args, "IntegrityError") /\ UNCHANGED org
       ELSE /\ org' = [org EXCEPT !.project_members = created,
                                  !.project_members_count = Cardinality(ActiveRows(created))]
            /\ OrgCall("project_add_member", args, "ok")

\* ProjectService.remove_member(project, user, removed_by)
project_remove_member(user, removed_by) ==
    LET args == <<user, removed_by>>
        active == ActiveRows(RowsOf(org.project_members, user))
        row == CHOOSE r \in active : TRUE
        left == (org.project_members \ active)
                   \cup {[row EXCEPT !.is_active = FALSE, !.left_at = now]}
    IN
    /\ org.projects = 1
    /\ IF ~project_can_manage_members(removed_by)
       THEN OrgCall("project_remove_member", args, "PermissionError") /\ UNCHANGED org
       ELSE IF active = {}
       THEN OrgCall("project_remove_member", args, "DoesNotExist") /\ UNCHANGED org
       ELSE IF row.role = "owner"
       THEN OrgCall("project_remove_member", args, "ValueError") /\ UNCHANGED org
       ELSE /\ org' = [org EXCEPT !.project_members = left,
                                  !.project_members_count = Cardinality(ActiveRows(left))]
            /\ OrgCall("project_remove_member", args, "ok")

\* ProjectService.change_member_role(project, user, new_role_name, changed_by)
change_member_role(user, new_role_name, changed_by) ==
    LET args == <<user, new_role_name, changed_by>>
        active == ActiveRows(RowsOf(org.project_members, user))
        row == CHOOSE r \in active : TRUE
    IN
    /\ org.projects = 1
    /\ IF ~project_can_manage_members(changed_by)
       THEN OrgCall("change_member_role", args, "PermissionError") /\ UNCHANGED org
       ELSE IF active = {}
       THEN OrgCall("change_member_role", args, "DoesNotExist") /\ UNCHANGED org
       ELSE IF row.role = "owner" /\ changed_by # user
       THEN OrgCall("change_member_role", args, "ValueError") /\ UNCHANGED org
       ELSE IF new_role_name \notin ProjectRoleNames
       THEN OrgCall("change_member_role", args, "ValueError") /\ UNCHANGED org
       ELSE /\ org' = [org EXCEPT !.project_members =
                          (@ \ active) \cup {[row EXCEPT !.role = new_role_name]}]
            /\ OrgCall("change_member_role", args, "ok")

\* ProjectService.transfer_ownership(project, new_owner, current_owner): the
\* two rows are read first, then new_member is saved as owner and
\* current_member as manager, in that order.
transfer_ownership(new_owner, current_owner) ==
    LET args == <<new_owner, current_owner>>
        current == ActiveRows(RowsOf(org.project_members, current_owner))
        new == ActiveRows(RowsOf(org.project_members, new_owner))
        current_member == CHOOSE r \in current : TRUE
        new_member == CHOOSE r \in new : TRUE
        first_save == (org.project_members \ new) \cup {[new_member EXCEPT !.role = "owner"]}
        second_save == {r \in first_save : r.user # current_owner}
                          \cup {[current_member EXCEPT !.role = "manager"]}
    IN
    /\ org.projects = 1
    /\ IF current = {}
       THEN OrgCall("transfer_ownership", args, "DoesNotExist") /\ UNCHANGED org
       ELSE IF current_member.role # "owner"
       THEN OrgCall("transfer_ownership", args, "PermissionError") /\ UNCHANGED org
       ELSE IF new = {}
       THEN OrgCall("transfer_ownership", args, "DoesNotExist") /\ UNCHANGED org
       ELSE /\ org' = [org EXCEPT !.project_members = second_save]
            /\ OrgCall("transfer_ownership", args, "ok")

\* ---------------------------------------------------------------------------
\* One team and one project of it: members are added, removed and added
\* again, roles are changed and the ownership is transferred, by either of
\* two users and with a role name that does not exist among the inputs.
TeamRoleInputs == {"admin", "member", "nobody"}
ProjectRoleInputs == {"owner", "manager", "developer", "nobody"}
OrgUsers == {"u_owner", "u_dev"}

NextMembership ==
    \/ \E owner \in OrgUsers : create_team(owner)
    \/ \E created_by \in OrgUsers : create_project(created_by)
    \/ \E user \in OrgUsers, role_name \in TeamRoleInputs, created_by \in OrgUsers :
          team_add_member(user, role_name, created_by)
    \/ \E user \in OrgUsers, removed_by \in OrgUsers : team_remove_member(user, removed_by)
    \/ \E user \in OrgUsers, role_name \in ProjectRoleInputs, added_by \in OrgUsers :
          project_add_member(user, role_name, added_by)
    \/ \E user \in OrgUsers, removed_by \in OrgUsers : project_remove_member(user, removed_by)
    \/ \E user \in OrgUsers, new_role_name \in ProjectRoleInputs, changed_by \in OrgUsers :
          change_member_role(user, new_role_name, changed_by)
    \/ \E new_owner \in OrgUsers, current_owner \in OrgUsers :
          transfer_ownership(new_owner, current_owner)

SpecMembership == Init /\ [][NextMembership]_vars

\* What C33 asks of an add_member call made for a removed member: rows and
\* count are the table and the counter the call works on.
Readded(rows, rowsAfter, countAfter) ==
    LET user == ret'.args[1]
        role_name == ret'.args[2]
    IN
    (/\ RowsOf(rows, user) # {}
     /\ ActiveRows(RowsOf(rows, user)) = {})
       => /\ ret'.res = "ok"
          /\ Cardinality(RowsOf(rowsAfter, user)) = 1
          /\ \A r \in RowsOf(rowsAfter, user) :
                r.is_active /\ r.role = role_name /\ r.left_at = NullTime
          /\ countAfter = Cardinality(ActiveRows(rowsAfter))

\* C33: in a team and in a project alike, add_member for a user whose
\* membership was removed, called by a user who may add members and with an
\* existing role name, succeeds and leaves one active row for the user with
\* the requested role and left_at cleared, the members counter being the
\* number of active rows.
C33_ReaddedMember ==
    [][/\ (/\ ret'.op = "team_add_member"
           /\ can_manage_team(ret'.args[3])
           /\ ret'.args[2] \in TeamRoleNames)
          => Readded(org.team_members, org'.team_members, org'.team_members_count)
       /\ (/\ ret'.op = "project_add_member"
           /\ project_can_manage_members(ret'.args[3])
           /\ team_is_member(ret'.args[1])
           /\ ret'.args[2] \in ProjectRoleNames)
          => Readded(org.project_members, org'.project_members,
                     org'.project_members_count)]_vars

\* C39: a project that exists has exactly one active member whose role is
\* 'owner'.
C39_ExactlyOneOwner ==
    org.projects = 1
       => Cardinality({r \in ActiveRows(org.project_members) : r.role = "owner"}) = 1

\* ------------------------------------------------------------- invitations
\* A TeamInvitation or ProjectInvitation row as create_invitation writes it.
InvitationRow(invited_by, proposed_role, invited_user) ==
    [invited_by |-> invited_by, invited_user |-> invited_user,
     proposed_role |-> proposed_role, status |-> "pending",
     expires_at |-> now + InvitationLifetime, responded_at |-> NullTime]

Pending(invitations, user) ==
    \E i \in DOMAIN invitations :
       invitations[i].status = "pending" /\ invitations[i].invited_user = user

\* TeamService.create_invitation(team, invited_by, proposed_role_name,
\* invited_user=...)
team_create_invitation(invited_by, proposed_role_name, invited_user) ==
    LET args == <<invited_by, proposed_role_name, invited_user>> IN
    /\ org.teams = 1
    /\ Len(org.team_invitations) < MaxInvitations
    /\ IF ~can_invite_members(invited_by)
       THEN OrgCall("team_create_invitation", args, "PermissionError") /\ UNCHANGED org
       ELSE IF proposed_role_name \notin TeamRoleNames
       THEN OrgCall("team_create_invitation", args, "ValueError") /\ UNCHANGED org
       ELSE IF Pending(org.team_invitations, invited_user)
       THEN OrgCall("team_create_invitation", args, "ValueError") /\ UNCHANGED org
       ELSE /\ org' = [org EXCEPT !.team_invitations =
                          Append(@, InvitationRow(invited_by, proposed_role_name, invited_user))]
            /\ OrgCall("team_create_invitation", args, "ok")

\* TeamService.accept_invitation(invitation, user): is_valid writes 'expired';
\* TeamInvitation.accept saves the status and then inserts the member row
\* under the unique index on (team, user); get_or_create finds that row and
\* the counter is set to the number of active rows.
team_accept_invitation(i, user) ==
    LET args == <<i, user>>
        invitation == org.team_invitations[i]
        accepted == [org.team_invitations EXCEPT ![i].status = "accepted",
                                                 ![i].responded_at = now]
        created == org.team_members
                      \cup {MemberRow(invitation.invited_user, invitation.proposed_role,
                                      invitation.invited_by)}
    IN
    /\ i \in DOMAIN org.team_invitations
    /\ IF invitation.status # "pending"
       THEN OrgCall("team_accept_invitation", args, "ValueError") /\ UNCHANGED org
       ELSE IF invitation.expires_at < now
       THEN /\ org' = [org EXCEPT !.team_invitations[i].status = "expired"]
            /\ OrgCall("team_accept_invitation", args, "ValueError")
       ELSE IF invitation.invited_user # user
       THEN OrgCall("team_accept_invitation", args, "PermissionError") /\ UNCHANGED org
       ELSE IF RowsOf(org.team_members, invitation.invited_user) # {}
       THEN /\ org' = [org EXCEPT !.team_invitations = accepted]
            /\ OrgCall("team_accept_invitation", args, "IntegrityError")
       ELSE /\ org' = [org EXCEPT !.team_invitations = accepted,
                                  !.team_members = created,
                                  !.team_members_count = Cardinality(ActiveRows(created))]
            /\ OrgCall("team_accept_invitation", args, "ok")

\* TeamService.decline_invitation(invitation, user)
team_decline_invitation(i, user) ==
    LET args == <<i, user>>
        invitation == org.team_invitations[i]
    IN
    /\ i \in DOMAIN org.team_invitations
    /\ IF invitation.invited_user # user
       THEN OrgCall("team_decline_invitation", args, "PermissionError") /\ UNCHANGED org
       ELSE /\ org' = [org EXCEPT !.team_invitations[i].status = "declined",
                                  !.team_invitations[i].responded_at = now]
            /\ OrgCall("team_decline_invitation", args, "ok")

\* TeamService.cancel_invitation(invitation, cancelled_by)
team_cancel_invitation(i, cancelled_by) ==
    LET args == <<i, cancelled_by>>
        invitation == org.team_invitations[i]
    IN
    /\ i \in DOMAIN org.team_invitations
    /\ IF invitation.invited_by # cancelled_by
       THEN OrgCall("team_cancel_invitation", args, "PermissionError") /\ UNCHANGED org
       ELSE /\ org' = [org EXCEPT !.team_invitations[i].status = "cancelled"]
            /\ OrgCall("team_cancel_invitation", args, "ok")

\* ProjectService.create_invitation(project, invited_by, proposed_role_name,
\* team_member): team_member is a TeamMember row of the team, named here by
\* its user.
project_create_invitation(invited_by, proposed_role_name, team_member) ==
    LET args == <<invited_by, proposed_role_name, team_member>> IN
    /\ org.projects = 1
    /\ RowsOf(org.team_members, team_member) # {}
    /\ Len(org.project_invitations) < MaxInvitations
    /\ IF ~project_can_manage_members(invited_by)
       THEN OrgCall("project_create_invitation", args, "PermissionError") /\ UNCHANGED org
       ELSE IF proposed_role_name \notin ProjectRoleNames
       THEN OrgCall("project_create_invitation", args, "ValueError") /\ UNCHANGED org
       ELSE IF ActiveRows(RowsOf(org.project_members, team_member)) # {}
       THEN OrgCall("project_create_invitation", args, "ValueError") /\ UNCHANGED org
       ELSE IF Pending(org.project_invitations, team_member)
       THEN OrgCall("project_create_invitation", args, "ValueError") /\ UNCHANGED org
       ELSE /\ org' = [org EXCEPT !.project_invitations =
                          Append(@, InvitationRow(invited_by, proposed_role_name, team_member))]
            /\ OrgCall("project_create_invitation", args, "ok")

\* ProjectService.accept_invitation(invitation, user): ProjectInvitation.accept
\* saves the status, inserts the member row under the unique index on
\* (project, user) and sets the counter to project.members.count(), the
\* number of rows.
project_accept_invitation(i, user) ==
    LET args == <<i, user>>
        invitation == org.project_invitations[i]
        accepted == [org.project_invitations EXCEPT ![i].status = "accepted",
                                                    ![i].responded_at = now]
        created == org.project_members
                      \cup {MemberRow(invitation.invited_user, invitation.proposed_role,
                                      invitation.invited_by)}
    IN
    /\ i \in DOMAIN org.project_invitations
    /\ IF invitation.status # "pending"
       THEN OrgCall("project_accept_invitation", args, "ValueError") /\ UNCHANGED org
       ELSE IF invitation.expires_at < now
       THEN /\ org' = [org EXCEPT !.project_invitations[i].status = "expired"]
            /\ OrgCall("project_accept_invitation", args, "ValueError")
       ELSE IF invitation.invited_user # user
       THEN OrgCall("project_accept_invitation", args, "PermissionError") /\ UNCHANGED org
       ELSE IF RowsOf(org.project_members, invitation.invited_user) # {}
       THEN /\ org' = [org EXCEPT !.project_invitations = accepted]
            /\ OrgCall("project_accept_invitation", args, "IntegrityError")
       ELSE /\ org' = [org EXCEPT !.project_invitations = accepted,
                                  !.project_members = created,
                                  !.project_members_count = Cardinality(created)]
            /\ OrgCall("project_accept_invitation", args, "ok")

\* ProjectService.decline_invitation(invitation, user)
project_decline_invitation(i, user) ==
    LET args == <<i, user>>
        invitation == org.project_invitations[i]
    IN
    /\ i \in DOMAIN org.project_invitations
    /\ IF invitation.invited_user # user
       THEN OrgCall("project_decline_invitation", args, "PermissionError") /\ UNCHANGED org
       ELSE /\ org' = [org EXCEPT !.project_invitations[i].status = "declined",
                                  !.project_invitations[i].responded_at = now]
            /\ OrgCall("project_decline_invitation", args, "ok")

\* The clock passes the expiry of every invitation made so far.
InvitationsExpire ==
    /\ now = 0
    /\ now' = InvitationLifetime + 1
    /\ ret' = [op |-> "clock", args |-> <<>>, res |-> "ok"]
    /\ UNCHANGED <<members, tasks, deps, actions, scheduled, events, nextTaskId,
                   nextDepId, nextActionId, nextSchedId, everFinal, statusChanges,
                   calls, workers, dispatches, executedWrites, storage, org, account>>

\* ---------------------------------------------------------------------------
\* The owner's team and project with two more users: members are added
\* directly, one team invitation and one project invitation are made, and
\* each is accepted, declined or cancelled any number of times, before and
\* after its expiry.
Invitees == {"u_dev", "u_obs"}

NextInvitation ==
    \/ create_team("u_owner")
    \/ create_project("u_owner")
    \/ \E user \in Invitees : team_add_member(user, "member", "u_owner")
    \/ \E user \in Invitees : project_add_member(user, "developer", "u_owner")
    \/ \E invited_by \in {"u_owner", "u_dev"}, invited_user \in Invitees :
          team_create_invitation(invited_by, "member", invited_user)
    \/ \E user \in Invitees : team_accept_invitation(1, user)
    \/ \E user \in Invitees : team_decline_invitation(1, user)
    \/ \E cancelled_by \in {"u_owner", "u_dev"} : team_cancel_invitation(1, cancelled_by)
    \/ \E invited_by \in {"u_owner", "u_dev"}, team_member \in Invitees :
          project_create_invitation(invited_by, "developer", team_member)
    \/ \E user \in Invitees : project_accept_invitation(1, user)
    \/ \E user \in Invitees : project_decline_invitation(1, user)
    \/ InvitationsExpire

SpecInvitation == Init /\ [][NextInvitation]_vars

Processing == {"team_accept_invitation", "team_decline_invitation", "team_cancel_invitation",
               "project_accept_invitation", "project_decline_invitation"}

\* C34: an accept, decline or cancel of an invitation whose status is no
\* longer 'pending' is rejected and leaves the invitations and the member
\* rows as they were.
C34_ProcessedOnce ==
    [][(/\ ret'.op \in Processing
        /\ IF ret'.op \in {"project_accept_invitation", "project_decline_invitation"}
           THEN org.project_invitations[ret'.args[1]].status # "pending"
           ELSE org.team_invitations[ret'.args[1]].status # "pending")
          => /\ ret'.res \in {"ValueError", "PermissionError"}
             /\ org' = org]_vars

\* The owner's project with two more users of the team: members are added,
\* removed, invited and the invitations accepted.
NextMembersCount ==
    \/ create_team("u_owner")
    \/ create_project("u_owner")
    \/ \E user \in Invitees : team_add_member(user, "member", "u_owner")
    \/ \E user \in Invitees, role_name \in {"manager", "developer"} :
          project_add_member(user, role_name, "u_owner")
    \/ \E user \in Invitees, removed_by \in Users : project_remove_member(user, removed_by)
    \/ \E invited_by \in Users, team_member \in Invitees :
          project_create_invitation(invited_by, "developer", team_member)
    \/ \E user \in Invitees : project_accept_invitation(1, user)

SpecMembersCount == Init /\ [][NextMembersCount]_vars

\* C35: project.members_count is the number of the project's ProjectMember
\* rows with is_active = true.
C35_MembersCount ==
    org.project_members_count = Cardinality(ActiveRows(org.project_members))

\* ------------------------------------------------------------- UserService
\* The attempts User.verify_tg_code admits and the minutes a code lives.
MaxAttempts == 5
CodeLifetime == 10
MaxTimeTelegram == 11
MaxFailures == 6

\* Two six-digit codes.
CodeInputs == {1, 2}

AccountCall(op, args, res) ==
    /\ ret' = [op |-> op, args |-> args, res |-> res]
    /\ UNCHANGED <<members, tasks, deps, actions, scheduled, events, now, nextTaskId,
                   nextDepId, nextActionId, nextSchedId, everFinal, statusChanges,
                   calls, workers, dispatches, executedWrites, storage, org>>

\* User.generate_tg_code followed by user.save(), as register_user, login and
\* the /telegram/link route call it.
generate_tg_code(code) ==
    /\ account' = [account EXCEPT !.tg_code = code,
                                  !.tg_code_expires = now + CodeLifetime,
                                  !.tg_code_attempts = 0,
                                  !.failures = 0]
    /\ AccountCall("generate_tg_code", <<code>>, "ok")

\* User.verify_tg_code(code) on a User object: the result and the object's
\* fields after the call.
verify_tg_code(user, code) ==
    IF user.tg_code = NullId \/ user.tg_code_expires = NullTime
    THEN [result |-> FALSE, user |-> user]
    ELSE IF now > user.tg_code_expires
    THEN [result |-> FALSE, user |-> user]
    ELSE IF user.tg_code_attempts >= MaxAttempts
    THEN [result |-> FALSE, user |-> user]
    ELSE IF user.tg_code = code
    THEN [result |-> TRUE,
          user |-> [user EXCEPT !.tg_verified = TRUE, !.tg_code = NullId,
                                !.tg_code_expires = NullTime, !.tg_code_attempts = 0]]
    ELSE [result |-> FALSE, user |-> [user EXCEPT !.tg_code_attempts = @ + 1]]

\* UserService.verify_telegram_code(user_id, code): the row is read into a
\* User object; the object is saved only when the code is verified.
verify_telegram_code(code) ==
    LET checked == verify_tg_code(account, code) IN
    IF checked.result
    THEN /\ account' = checked.user
         /\ AccountCall("verify_telegram_code", <<code>>, "ok")
    ELSE /\ account' = [account EXCEPT !.failures = @ + 1]
         /\ AccountCall("verify_telegram_code", <<code>>, "ValueError")

\* A minute passes.
MinutePasses ==
    /\ now' = now + 1
    /\ ret' = [op |-> "clock", args |-> <<>>, res |-> "ok"]
    /\ UNCHANGED <<members, tasks, deps, actions, scheduled, events, nextTaskId,
                   nextDepId, nextActionId, nextSchedId, everFinal, statusChanges,
                   calls, workers, dispatches, executedWrites, storage, org, account>>

\* A user's codes are generated and tried, right and wrong, while they live
\* and after they have expired.
BoundedTelegram == now <= MaxTimeTelegram /\ account.failures <= MaxFailures

NextTelegram ==
    \/ \E code \in CodeInputs : generate_tg_code(code)
    \/ \E code \in CodeInputs : verify_telegram_code(code) /\ BoundedTelegram'
    \/ MinutePasses /\ BoundedTelegram'

SpecTelegram == Init /\ [][NextTelegram]_vars

\* C36: a verify_telegram_code call made after five failed calls for the
\* user's current code fails, whatever code it is given.
C36_FiveAttempts ==
    [][(ret'.op = "verify_telegram_code" /\ account.failures >= MaxAttempts)
          => ret'.res = "ValueError"]_vars
====
